---- MODULE Spec2Model ----
(***************************************************************************)
(* A model of databricks-mcp-server: the credential store (BaseConfig),    *)
(* the statement execution loop (execute_query) and the tool entry points. *)
(***************************************************************************)
EXTENDS Integers, Sequences, FiniteSets, TLC

\* ------------------------------------------------------------------------
\* Bounds of the model
\* ------------------------------------------------------------------------

\* time.time() at process start, in seconds
StartTime == 20

\* how many seconds the clock may advance
MaxTicks == 4

\* how many token requests the token endpoint may receive
MaxRequests == 3

\* how many seconds a token request may take
MaxLatency == 1

\* how many columns a result may declare, and how many rows it may hold
MaxCols == 2

MaxRows == 2

\* how many idle passes of the execute_query loop are counted
MaxSpins == 2

\* how many table names one fetch_table_info call may carry
MaxTables == 2

\* how many upstream edges a lineage dict may hold
MaxEdges == 2

\* how many worker threads read the credential store at a time
MaxThreads == 2

\* how many tool calls the transport has handed to the event loop
MaxCalls == 2

\* ------------------------------------------------------------------------
\* Python values
\* ------------------------------------------------------------------------

\* Python's None among strings, and among numbers (Optional[float])
None == "<None>"

NoTime == <<>>

\* truthiness of an Optional[str]: None and "" are falsy
Truthy(s) == s # None /\ s # ""

\* truthiness of an Optional[float]: None and 0.0 are falsy
TruthyNum(o) == o # NoTime /\ o[1] # 0

\* a or b
PyOr(a, b) == IF Truthy(a) THEN a ELSE b

\* ------------------------------------------------------------------------
\* Credential store: BaseConfig (config.py)
\* ------------------------------------------------------------------------

VARIABLES
    env,                \* os.environ, the variables BaseConfig.authorize reads
    cpc,                \* "start" | "ready" (a BaseConfig exists) | "failed" (authorize raised)
    cfg,                \* the BaseConfig's configuration fields
    access_token,       \* BaseConfig.access_token
    token_expires_at,   \* BaseConfig.token_expires_at
    now,                \* time.time()
    requests,           \* number of POSTs the token endpoint has received
    ret,                \* what the last call (authorize or headers) returned or raised
    lastToken           \* the last token response the store accepted, and when

credVars == <<env, cpc, cfg, access_token, token_expires_at, now, requests, ret, lastToken>>

\* one execute_query call and the statement it runs (warehouse.py)
VARIABLES
    stmt,               \* the statement as the warehouse will run it: its end and its payloads
    srvState,           \* the state of the statement at the warehouse
    qpc,                \* "start" | "loop" (in `while True`) | "done" (returned) | "raised"
    resp,               \* the StatementResponse that execute_query holds
    getCalls,           \* number of status fetches by id the warehouse has received
    spins,              \* passes of the loop that returned nothing, counted up to MaxSpins
    outcome             \* what execute_query returned or raised

queryVars == <<stmt, srvState, qpc, resp, getCalls, spins, outcome>>

\* one call of a tool entry point (tools.py)
VARIABLES
    tool,               \* the entry point called, or "none"
    targ,               \* fetch_table_info's table_names: -1 when not a list, else its length
    tpc,                \* "idle" | "running" | "returned" | "propagated" (an exception left the entry point)
    tstage,             \* the step of the body that runs next
    tresult             \* what the entry point handed back

toolVars == <<tool, targ, tpc, tstage, tresult>>

\* one call of DatabricksClient.request or DatabricksClient.do
\* (_databricks_client.py)
VARIABLES
    kpc,                \* "idle" | "done"
    kcall,              \* the call's arguments: method called, headers, raise_for_status
    ksent,              \* the headers handed to requests.request, when it was reached
    kwire,              \* what requests.request came back with
    kret                \* what the call returned or raised

clientVars == <<kpc, kcall, ksent, kwire, kret>>

\* calls of format_table_info, one after another (utils.py)
VARIABLES
    default_lineage_info,   \* the list object that is format_table_info's default for lineage_info
    rcall,                  \* the arguments of the last call
    rout                    \* what the last call returned or raised

renderVars == <<default_lineage_info, rcall, rout>>

\* one call of _format_lineage_info and one of _format_single_table (utils.py)
VARIABLES
    lineage,                \* the lineage dict passed
    lineage_section,        \* what _format_lineage_info returned or raised, once it has
    table_section           \* what _format_single_table returned or raised, once it has

lineageVars == <<lineage, lineage_section, table_section>>

\* one call of get_table_info (unitycatalog.py)
VARIABLES
    table_names,        \* the names passed
    gpc,                \* "idle" | "table" | "lineage" | "render" | "done"
    gidx,               \* the position in table_names the loop is at
    fetched_tables,     \* the list table_info built so far
    fetched_lineage,    \* the list lineage_info built so far
    gfail,              \* the fetch that raised, if one did: its position and kind
    gout                \* what get_table_info returned or raised

aggVars == <<table_names, gpc, gidx, fetched_tables, fetched_lineage, gfail, gout>>

\* the worker threads (asyncio.to_thread) that read BaseConfig.headers on the
\* one shared BaseConfig
VARIABLES
    thread_pc,          \* for each thread: "idle" | "posting" (in requests.post) |
                        \* "storing" (access_token assigned, expiry not yet) | "done" | "raised"
    thread_held,        \* for each thread: the token response it is storing, with the
                        \* number of the request that fetched it
    stored_from         \* the numbers of the requests whose responses the cached
                        \* access_token and token_expires_at were taken from

threadVars == <<thread_pc, thread_held, stored_from>>

\* the tool calls the event loop of the server is running
VARIABLES
    call_tool,          \* for each call: the entry point called, "none" before the call
    call_pc             \* for each call: "new" | "blocking" (running on the event loop) |
                        \* "offloaded" (awaiting asyncio.to_thread) | "ready" | "done"

loopVars == <<call_tool, call_pc>>

otherVars == <<clientVars, renderVars, lineageVars, aggVars, threadVars, loopVars>>

\* the safety margin subtracted from the advertised lifetime
ExpiryMargin == 10

\* the environments considered: every variable absent, empty or set
EnvSpace ==
    [ DATABRICKS_HOST             : {None, "https://adb.example"},
      DATABRICKS_TOKEN            : {None, "", "pat-1"},
      DATABRICKS_PAT              : {None, "pat-2"},
      DATABRICKS_CLIENT_ID        : {None, "", "client"},
      DATABRICKS_CLIENT_SECRET    : {None, "secret"},
      DATABRICKS_OAUTH_TOKEN_URL  : {None, "", "https://idp.example/token"},
      DATABRICKS_OAUTH_SCOPE      : {None, "sql"} ]

\* BaseConfig.__init__: every field None unless given
NewConfig(host, pat, id, secret, url, scope) ==
    [ host |-> host, pat_token |-> pat, client_id |-> id,
      client_secret |-> secret, oauth_token_url |-> url, oauth_scope |-> scope ]

NoConfig == NewConfig(None, None, None, None, None, None)

\* the "expires_in" member of a token response body: absent, a JSON number,
\* a numeric string or a string float() rejects
ExpiresInSpace ==
    { [kind |-> "absent", val |-> 0], [kind |-> "badstr", val |-> 0],
      [kind |-> "numstr", val |-> 12] }
    \cup { [kind |-> "num", val |-> v] : v \in {0, 9, 11} }

\* what the token endpoint may answer to one POST
TokenResponses ==
    { [kind |-> "transport", access_token |-> None, expires_in |-> [kind |-> "absent", val |-> 0]],
      [kind |-> "http_error", access_token |-> None, expires_in |-> [kind |-> "absent", val |-> 0]],
      [kind |-> "not_json", access_token |-> None, expires_in |-> [kind |-> "absent", val |-> 0]] }
    \cup [ kind : {"ok"}, access_token : {None, ""}, expires_in : {[kind |-> "num", val |-> 11]} ]
    \cup [ kind : {"ok"}, access_token : {"t1", "t2"}, expires_in : ExpiresInSpace ]

Latencies == 0..MaxLatency

\* `if expires_in:` on the decoded JSON member
TruthyExpiresIn(e) ==
    CASE e.kind = "absent" -> FALSE
      [] e.kind = "num"    -> e.val # 0
      [] OTHER             -> TRUE

\* float(expires_in) inside try/except: None when float() raises
FloatOf(e) == IF e.kind \in {"num", "numstr"} THEN <<e.val>> ELSE NoTime

\* the expiry stored for a token received at time t; `old` is kept when no
\* usable expires_in came with it
ExpiresAtNoMargin(e, t, old) ==
    IF TruthyExpiresIn(e) /\ TruthyNum(FloatOf(e)) THEN <<t + FloatOf(e)[1]>> ELSE old

ExpiresAt(e, t, old) ==
    IF TruthyExpiresIn(e) /\ TruthyNum(FloatOf(e))
    THEN <<t + FloatOf(e)[1] - ExpiryMargin>>
    ELSE old

\* the cached token may be used at time t
TokenValidIgnoringExpiry(at, exp, t) == Truthy(at)

TokenValid(at, exp, t) == Truthy(at) /\ TruthyNum(exp) /\ t < exp[1]

NoExc == [type |-> "none", msg |-> ""]

Exc(type, msg) == [type |-> type, msg |-> msg]

NoHeaders == [Authorization |-> <<>>, ContentType |-> None]

\* {"Authorization": f"Bearer {tok}", "Content-Type": "application/json"}
BearerHeaders(tok) == [Authorization |-> <<"Bearer", tok>>, ContentType |-> "application/json"]

\* the outcome of one call: the value returned or the exception raised, and
\* the number of token requests the call issued
Returned(op, hdrs, posts) == [op |-> op, exc |-> NoExc, value |-> hdrs, posts |-> posts]

Raised(op, exc, posts) == [op |-> op, exc |-> exc, value |-> NoHeaders, posts |-> posts]

NoCall == [op |-> "none", exc |-> NoExc, value |-> NoHeaders, posts |-> 0]

\* the last token response the store accepted, as the endpoint sent it
NoToken == [access_token |-> None, expires_in |-> [kind |-> "absent", val |-> 0], received_at |-> 0]

\* the cache after a call, with what the call did
Cache(exc, at, exp, posts, elapsed, got) ==
    [ exc |-> exc, access_token |-> at, token_expires_at |-> exp,
      posts |-> posts, elapsed |-> elapsed, got |-> got ]

\* the client-credentials POST and what is made of its response `answer`, which
\* arrives `d` seconds after time t
TokenRequestStoresFirst(at, exp, t, answer, d, wrap) ==
    CASE answer.kind = "transport" ->
            Cache(Exc("ConnectionError", "token request"), at, exp, 1, d, NoToken)
      [] answer.kind = "not_json" ->
            Cache(Exc("JSONDecodeError", "token response"), at, exp, 1, d, NoToken)
      [] answer.kind = "http_error" ->
            Cache(Exc(IF wrap THEN "ValueError" ELSE "HTTPError", "failed to obtain OAuth token"),
                  at, exp, 1, d, NoToken)
      [] OTHER ->
            IF ~Truthy(answer.access_token)
            THEN Cache(Exc("ValueError", "token endpoint did not return access_token"),
                       answer.access_token, exp, 1, d, NoToken)
            ELSE Cache(NoExc, answer.access_token, ExpiresAt(answer.expires_in, t + d, exp), 1, d,
                       [ access_token |-> answer.access_token, expires_in |-> answer.expires_in,
                         received_at |-> t + d ])

TokenRequest(at, exp, t, answer, d, wrap) ==
    CASE answer.kind = "transport" ->
            Cache(Exc("ConnectionError", "token request"), at, exp, 1, d, NoToken)
      [] answer.kind = "not_json" ->
            Cache(Exc("JSONDecodeError", "token response"), at, exp, 1, d, NoToken)
      [] answer.kind = "http_error" ->
            Cache(Exc(IF wrap THEN "ValueError" ELSE "HTTPError", "failed to obtain OAuth token"),
                  at, exp, 1, d, NoToken)
      [] OTHER ->
            IF ~Truthy(answer.access_token)
            THEN Cache(Exc("ValueError", "token endpoint did not return access_token"),
                       at, exp, 1, d, NoToken)
            ELSE Cache(NoExc, answer.access_token, ExpiresAt(answer.expires_in, t + d, exp), 1, d,
                       [ access_token |-> answer.access_token, expires_in |-> answer.expires_in,
                         received_at |-> t + d ])

\* BaseConfig._ensure_oauth_token on configuration c with cache (at, exp) at time t
ensure_oauth_token(c, at, exp, t, answer, d) ==
    IF Truthy(c.pat_token) THEN Cache(NoExc, at, exp, 0, 0, NoToken)
    ELSE IF ~(Truthy(c.client_id) /\ Truthy(c.client_secret) /\ Truthy(c.oauth_token_url))
    THEN Cache(Exc("ValueError", "OAuth token config missing client_id/secret or token URL"),
               at, exp, 0, 0, NoToken)
    ELSE IF TokenValid(at, exp, t) THEN Cache(NoExc, at, exp, 0, 0, NoToken)
    ELSE TokenRequest(at, exp, t, answer, d, FALSE)

\* the BaseConfig.headers property: the call's outcome and the cache it leaves
headersSkippingPat(c, at, exp, t, answer, d) ==
    LET e == ensure_oauth_token(c, at, exp, t, answer, d) IN
    IF e.exc # NoExc THEN [ret |-> Raised("headers", e.exc, e.posts), cache |-> e]
    ELSE IF Truthy(e.access_token)
    THEN [ret |-> Returned("headers", BearerHeaders(e.access_token), e.posts), cache |-> e]
    ELSE [ret |-> Raised("headers", Exc("ValueError", "No authentication token available"), e.posts),
          cache |-> e]

headers(c, at, exp, t, answer, d) ==
    IF Truthy(c.pat_token)
    THEN [ ret |-> Returned("headers", BearerHeaders(c.pat_token), 0),
           cache |-> Cache(NoExc, at, exp, 0, 0, NoToken) ]
    ELSE headersSkippingPat(c, at, exp, t, answer, d)

\* the return value of authorize() is the configuration; no cache is touched
NoCache == Cache(NoExc, None, NoTime, 0, 0, NoToken)

AuthorizeRaised(msg) ==
    [ cfg |-> NoConfig, ret |-> Raised("authorize", Exc("ValueError", msg), 0), cache |-> NoCache ]

\* BaseConfig.authorize(), the client-credentials flow once the token URL is
\* known to be set: build the configuration and request the first token
authorize_client_credentials(e, t, answer, d) ==
    LET c == TokenRequest(None, NoTime, t, answer, d, TRUE) IN
    IF c.exc # NoExc
    THEN [ cfg |-> NoConfig, ret |-> Raised("authorize", c.exc, c.posts), cache |-> c ]
    ELSE [ cfg |-> NewConfig(e.DATABRICKS_HOST, None, e.DATABRICKS_CLIENT_ID,
                             e.DATABRICKS_CLIENT_SECRET,
                             e.DATABRICKS_OAUTH_TOKEN_URL, e.DATABRICKS_OAUTH_SCOPE),
           ret |-> Returned("authorize", NoHeaders, c.posts), cache |-> c ]

\* BaseConfig.authorize() on environment e at time t: the configuration built,
\* the outcome and the cache
authorizeNoUrlCheck(e, t, answer, d) ==
    LET pat == PyOr(e.DATABRICKS_TOKEN, e.DATABRICKS_PAT) IN
    IF Truthy(pat)
    THEN [ cfg |-> NewConfig(e.DATABRICKS_HOST, pat, None, None, None, None),
           ret |-> Returned("authorize", NoHeaders, 0), cache |-> NoCache ]
    ELSE IF Truthy(e.DATABRICKS_CLIENT_ID) /\ Truthy(e.DATABRICKS_CLIENT_SECRET)
    THEN authorize_client_credentials(e, t, answer, d)
    ELSE AuthorizeRaised("No Databricks authentication environment variables found")

authorize(e, t, answer, d) ==
    LET pat == PyOr(e.DATABRICKS_TOKEN, e.DATABRICKS_PAT) IN
    IF Truthy(pat)
    THEN [ cfg |-> NewConfig(e.DATABRICKS_HOST, pat, None, None, None, None),
           ret |-> Returned("authorize", NoHeaders, 0), cache |-> NoCache ]
    ELSE IF Truthy(e.DATABRICKS_CLIENT_ID) /\ Truthy(e.DATABRICKS_CLIENT_SECRET)
    THEN IF ~Truthy(e.DATABRICKS_OAUTH_TOKEN_URL)
         THEN AuthorizeRaised("DATABRICKS_OAUTH_TOKEN_URL must be set for client-credentials auth")
         ELSE authorize_client_credentials(e, t, answer, d)
    ELSE AuthorizeRaised("No Databricks authentication environment variables found")

\* the clock's last second
EndTime == StartTime + MaxTicks

\* a call's effect on the store, the clock and the token endpoint's count
Apply(r) ==
    /\ now + r.cache.elapsed <= EndTime
    /\ requests + r.cache.posts <= MaxRequests
    /\ access_token' = r.cache.access_token
    /\ token_expires_at' = r.cache.token_expires_at
    /\ now' = now + r.cache.elapsed
    /\ requests' = requests + r.cache.posts
    /\ lastToken' = IF r.cache.got = NoToken THEN lastToken ELSE r.cache.got
    /\ ret' = r.ret

\* process start: lineage.py builds its client with BaseConfig.authorize()
Authorize ==
    /\ cpc = "start"
    /\ \E answer \in TokenResponses, d \in Latencies :
         LET r == authorize(env, now, answer, d) IN
         /\ Apply(r)
         /\ cfg' = r.cfg
         /\ cpc' = IF r.ret.exc = NoExc THEN "ready" ELSE "failed"
    /\ UNCHANGED <<env, queryVars, toolVars, otherVars>>

\* one resolve(): a read of the BaseConfig.headers property
Headers ==
    /\ cpc = "ready"
    /\ \E answer \in TokenResponses, d \in Latencies :
         Apply(headers(cfg, access_token, token_expires_at, now, answer, d))
    /\ UNCHANGED <<env, cpc, cfg, queryVars, toolVars, otherVars>>

\* a second passes
Tick ==
    /\ now < EndTime
    /\ now' = now + 1
    /\ UNCHANGED <<env, cpc, cfg, access_token, token_expires_at, requests, ret, lastToken>>
    /\ UNCHANGED <<queryVars, toolVars, otherVars>>

\* ------------------------------------------------------------------------
\* Statement execution: execute_query (warehouse.py)
\* ------------------------------------------------------------------------

\* StatementState values the warehouse reports
NonTerminalStates == {"PENDING", "RUNNING"}

TerminalStates == {"SUCCEEDED", "FAILED", "CANCELED", "CLOSED"}

\* status.error: absent, or a ServiceError with error_code and message
NoError == [present |-> FALSE, error_code |-> None, message |-> None]

ErrorSpace ==
    { [present |-> TRUE, error_code |-> c, message |-> m] :
        c \in {"BAD_REQUEST", "INTERNAL_ERROR"}, m \in {"syntax error"} }

\* manifest.schema.columns names; a query may name two columns alike
ColumnNames == {"id", "name"}

CellValues == {"a", "b"}

ColumnLists == UNION { [1..n -> ColumnNames] : n \in 0..MaxCols }

\* the data_array of a result with n columns: up to MaxRows rows of n values
DataArrays(n) == UNION { [1..m -> [1..n -> CellValues]] : m \in 0..MaxRows }

\* an error payload a noisy warehouse shows while the statement still runs
TransientError == [present |-> TRUE, error_code |-> "TEMPORARILY_UNAVAILABLE", message |-> "retrying"]

\* the statements considered: how each ends (`final`), the error payload of
\* its end, the error payload the warehouse shows before the end (`early`),
\* and the SUCCEEDED result: the declared columns, the rows (each as wide as
\* the columns) and whether zero rows come as a missing data_array
StatementSpace ==
    UNION { { [final |-> "SUCCEEDED", error |-> NoError, early |-> NoError,
               columns |-> cols, rows |-> rows, no_array |-> na] :
                rows \in DataArrays(Len(cols)), na \in BOOLEAN } : cols \in ColumnLists }
    \cup
    { [final |-> f, error |-> e, early |-> ee,
       columns |-> <<>>, rows |-> <<>>, no_array |-> TRUE] :
        f \in TerminalStates, e \in ErrorSpace \cup {NoError}, ee \in {NoError, TransientError} }

NoStatement ==
    [final |-> "CLOSED", error |-> NoError, early |-> NoError,
     columns |-> <<>>, rows |-> <<>>, no_array |-> TRUE]

\* resp.result.data_array: None, or a list of rows
NoArray == [is_none |-> TRUE, rows |-> <<>>]

\* the StatementResponse the warehouse sends for statement st in state `state`
StatementResponse(st, state) ==
    [ has_status |-> TRUE,
      state      |-> state,
      error      |-> IF state \in NonTerminalStates THEN st.early ELSE st.error,
      columns    |-> IF state = "SUCCEEDED" THEN st.columns ELSE <<>>,
      data_array |-> IF state = "SUCCEEDED" /\ ~(st.rows = <<>> /\ st.no_array)
                     THEN [is_none |-> FALSE, rows |-> st.rows]
                     ELSE NoArray ]

\* a response whose status member is None
StatusLess ==
    [ has_status |-> FALSE, state |-> "PENDING", error |-> NoError,
      columns |-> <<>>, data_array |-> NoArray ]

NoResponse == StatusLess

\* what execute_query hands back: a dict with "state" and "data" or "error",
\* or an exception
NoOutcome ==
    [ kind |-> "none", state |-> None, has_data |-> FALSE, data |-> <<>>,
      has_error |-> FALSE, error |-> <<>>, exc |-> NoExc ]

\* {"state": state, "data": data}
DataResult(state, data) ==
    [ kind |-> "return", state |-> state, has_data |-> TRUE, data |-> data,
      has_error |-> FALSE, error |-> <<>>, exc |-> NoExc ]

\* {"state": state, "error": msg}
ErrorResult(state, msg) ==
    [ kind |-> "return", state |-> state, has_data |-> FALSE, data |-> <<>>,
      has_error |-> TRUE, error |-> msg, exc |-> NoExc ]

QueryRaised(exc) ==
    [ kind |-> "raise", state |-> None, has_data |-> FALSE, data |-> <<>>,
      has_error |-> FALSE, error |-> <<>>, exc |-> exc ]

\* the larger and the smaller of two numbers
Max2(a, b) == IF a >= b THEN a ELSE b

Min2(a, b) == IF a <= b THEN a ELSE b

\* the greatest and the least member of a non-empty set of numbers
MaxOf(S) == CHOOSE x \in S : \A y \in S : y <= x

MinOf(S) == CHOOSE x \in S : \A y \in S : x <= y

\* dict(zip(names, row)): zip stops at the shorter sequence, and a key that
\* comes again takes the later value
ZipDictFirstWins(names, row) ==
    LET n == Min2(Len(names), Len(row)) IN
    [ k \in { names[i] : i \in 1..n } |-> row[MinOf({ i \in 1..n : names[i] = k })] ]

ZipDict(names, row) ==
    LET n == Min2(Len(names), Len(row)) IN
    [ k \in { names[i] : i \in 1..n } |-> row[MaxOf({ i \in 1..n : names[i] = k })] ]

\* [dict(zip(column_names, row)) for row in data]
Records(names, rows) == [ i \in 1..Len(rows) |-> ZipDict(names, rows[i]) ]

\* f"{error_code} - {message}"
ErrorMessage(err) == <<err.error_code, " - ", err.message>>

\* `if resp.result.data_array:`: None and [] are falsy
DataTruthy(a) == ~a.is_none /\ Len(a.rows) > 0

\* the loop goes round again
Continue == [done |-> FALSE, outcome |-> NoOutcome]

Return(o) == [done |-> TRUE, outcome |-> o]

\* one pass of `while True` in execute_query over the response r it holds
LoopBody(r) ==
    IF r.has_status
    THEN IF r.state = "SUCCEEDED"
         THEN IF DataTruthy(r.data_array)
              THEN Return(DataResult(r.state, Records(r.columns, r.data_array.rows)))
              ELSE Return(DataResult(r.state, <<>>))
         ELSE IF r.error.present
              THEN Return(ErrorResult(r.state, ErrorMessage(r.error)))
              ELSE Continue
    ELSE Continue

\* the warehouse moves the statement on, to its end at the latest
WarehouseStep ==
    /\ qpc # "idle"
    /\ srvState \in NonTerminalStates
    /\ srvState' \in (IF srvState = "PENDING" THEN {"RUNNING"} ELSE {}) \cup {stmt.final}
    /\ UNCHANGED <<stmt, qpc, resp, getCalls, spins, outcome>>
    /\ UNCHANGED <<credVars, toolVars, otherVars>>

\* sdk_client.statement_execution.execute_statement(...) returns, after it
\* has waited up to wait_timeout for the statement, or raises
ExecuteStatement ==
    /\ qpc = "start"
    /\ \/ /\ resp' \in {StatementResponse(stmt, srvState), StatusLess}
          /\ qpc' = "loop"
          /\ outcome' = outcome
       \/ /\ resp' = resp
          /\ qpc' = "raised"
          /\ outcome' = QueryRaised(Exc("DatabricksError", "execute_statement"))
    /\ UNCHANGED <<stmt, srvState, getCalls, spins>>
    /\ UNCHANGED <<credVars, toolVars, otherVars>>

\* one pass of the loop: return, or go round again with the same response
LoopIteration ==
    /\ qpc = "loop"
    /\ LET b == LoopBody(resp) IN
       IF b.done
       THEN /\ qpc' = "done"
            /\ outcome' = b.outcome
            /\ spins' = spins
       ELSE /\ qpc' = "loop"
            /\ outcome' = outcome
            /\ spins' = Min2(spins + 1, MaxSpins)
    /\ UNCHANGED <<stmt, srvState, resp, getCalls>>
    /\ UNCHANGED <<credVars, toolVars, otherVars>>

\* ------------------------------------------------------------------------
\* Tool entry points (tools.py) over unitycatalog.py, lineage.py,
\* _databricks_client.py and warehouse.py
\* ------------------------------------------------------------------------

Tools ==
    {"fetch_schemas_in_catalog", "fetch_tables_in_schema", "fetch_table_info",
     "execute_spark_sql_query"}

\* the exception classes the code beneath the entry points raises, each with
\* its base class
BaseOf(c) ==
    CASE c = "Exception"          -> "BaseException"
      [] c = "ValueError"         -> "Exception"
      [] c = "AssertionError"     -> "Exception"
      [] c = "TypeError"          -> "Exception"
      [] c = "AttributeError"     -> "Exception"
      [] c = "OSError"            -> "Exception"
      [] c = "JSONDecodeError"    -> "ValueError"
      [] c = "RequestException"   -> "OSError"
      [] c = "HTTPError"          -> "RequestException"
      [] c = "ConnectionError"    -> "RequestException"
      [] c = "Timeout"            -> "RequestException"
      [] c = "DatabricksError"    -> "OSError"
      [] OTHER                    -> "BaseException"

\* issubclass(c, base)
RECURSIVE IsSubclass(_, _)
IsSubclass(c, base) ==
    IF c = base THEN TRUE
    ELSE IF c = "BaseException" THEN FALSE
    ELSE IsSubclass(BaseOf(c), base)

\* the entry points' handler: `except Exception as e`
CatchesValueErrorOnly(c) == IsSubclass(c, "ValueError")

Catches(c) == IsSubclass(c, "Exception")

\* the steps get_table_lineage takes for one table: DatabricksClient.do and
\* DatabricksClient.request
LineageSteps ==
    <<"config.host", "config.headers", "requests.request", "raise_for_status", "resp.json">>

\* the steps get_table_info takes for one table
TableSteps == <<"sdk.tables.get">> \o LineageSteps

\* s repeated n times
RECURSIVE Repeat(_, _)
Repeat(s, n) == IF n <= 0 THEN <<>> ELSE s \o Repeat(s, n - 1)

\* the steps of an entry point's try block, in order
Body(t, arg) ==
    CASE t = "fetch_schemas_in_catalog" -> <<"sdk.schemas.list">>
      [] t = "fetch_tables_in_schema"   -> <<"sdk.tables.list", "format_table_info">>
      [] t = "fetch_table_info"         ->
            <<"isinstance">> \o Repeat(TableSteps, arg) \o <<"format_table_info">>
      [] OTHER                          -> <<"execute_query">>

\* the exceptions a step may raise
MayRaise(step, arg) ==
    CASE step = "isinstance"        -> IF arg < 0 THEN {"AssertionError"} ELSE {}
      [] step = "sdk.schemas.list"  -> {"DatabricksError"}
      [] step = "sdk.tables.list"   -> {"DatabricksError"}
      [] step = "sdk.tables.get"    -> {"DatabricksError"}
      [] step = "config.host"       -> {"ValueError"}
      [] step = "config.headers"    -> {"ValueError", "HTTPError", "ConnectionError", "JSONDecodeError"}
      [] step = "requests.request"  -> {"ConnectionError", "Timeout"}
      [] step = "raise_for_status"  -> {"HTTPError"}
      [] step = "resp.json"         -> {"ValueError"}
      [] step = "format_table_info" -> {"TypeError", "AttributeError"}
      [] OTHER                      -> {}

\* whether a step may complete
MayPass(step, arg) == step # "isinstance" \/ arg >= 0

\* the statements the query tool is called with here: those of StatementSpace
\* with at most one row
ToolStatements == { st \in StatementSpace : Len(st.rows) <= 1 }

\* the table (1, 2, ...) that step i of the body works on; 0 when none
StepItem(t, arg, i) ==
    IF t = "fetch_table_info" /\ 1 < i /\ i < Len(Body(t, arg))
    THEN ((i - 2) \div Len(TableSteps)) + 1
    ELSE 0

\* what the transport receives from an entry point
NoResult == [kind |-> "none", title |-> None, details |-> NoExc, item |-> 0]

\* the value the try block of a text tool returns: get_schemas_in_catalog
\* returns None, the others the text format_table_info made
Value(t) ==
    [ kind |-> IF t = "fetch_schemas_in_catalog" THEN "None" ELSE "text",
      title |-> None, details |-> NoExc, item |-> 0 ]

\* the dict execute_query returned, handed on as it is
Dict(o) == [kind |-> "dict", title |-> o.state, details |-> NoExc, item |-> 0]

\* the handler's return value for exception e, raised while working on table
\* `item`: an error text block with str(e), or for the query tool
\* {"state": "FAILED", "error": f"query execution failed: {e}"}
Handled(t, e, item) ==
    IF t = "execute_spark_sql_query"
    THEN [kind |-> "failed_dict", title |-> "FAILED", details |-> e, item |-> item]
    ELSE [ kind |-> "error_text",
           title |-> CASE t = "fetch_schemas_in_catalog" -> "Could not retrieve list of schemas"
                       [] t = "fetch_tables_in_schema"   -> "Could not retrieve list of tables"
                       [] OTHER                          -> "Could not retrieve table information",
           details |-> e, item |-> item ]

\* the exception leaves the entry point
Propagated(e, item) == [kind |-> "propagated", title |-> None, details |-> e, item |-> item]

\* the entry point starts on its try block
Begin(t, arg) ==
    /\ tool' = t
    /\ targ' = arg
    /\ tpc' = "running"
    /\ tstage' = 1
    /\ tresult' = NoResult
    /\ UNCHANGED <<credVars, queryVars, otherVars>>

fetch_schemas_in_catalog ==
    /\ tpc # "running"
    /\ Begin("fetch_schemas_in_catalog", 0)

fetch_tables_in_schema ==
    /\ tpc # "running"
    /\ Begin("fetch_tables_in_schema", 0)

\* table_names is a list of 0..MaxTables names, or (-1) no list at all
fetch_table_info ==
    /\ tpc # "running"
    /\ \E n \in -1..MaxTables : Begin("fetch_table_info", n)

\* execute_spark_sql_query calls execute_query(query=query) itself
execute_spark_sql_query ==
    /\ tpc # "running"
    /\ tool' = "execute_spark_sql_query"
    /\ targ' = 0
    /\ tpc' = "running"
    /\ tstage' = 1
    /\ tresult' = NoResult
    /\ stmt' \in ToolStatements
    /\ srvState' = "PENDING"
    /\ qpc' = "start"
    /\ resp' = NoResponse
    /\ spins' = 0
    /\ outcome' = NoOutcome
    /\ UNCHANGED <<credVars, getCalls, otherVars>>

\* the frame of execute_query is gone once the call is over
QueryOver ==
    /\ stmt' = NoStatement
    /\ srvState' = "PENDING"
    /\ qpc' = "idle"
    /\ resp' = NoResponse
    /\ spins' = 0
    /\ outcome' = NoOutcome
    /\ UNCHANGED getCalls

\* execute_query has returned: `return resp`
QueryToolReturns ==
    /\ tool = "execute_spark_sql_query" /\ tpc = "running"
    /\ qpc = "done"
    /\ tpc' = "returned"
    /\ tresult' = Dict(outcome)
    /\ QueryOver
    /\ UNCHANGED <<tool, targ, tstage, credVars, otherVars>>

\* execute_query has raised, and the handler takes the exception or lets it
\* through
QueryToolExcept ==
    /\ tool = "execute_spark_sql_query" /\ tpc = "running"
    /\ qpc = "raised"
    /\ IF Catches(outcome.exc.type)
       THEN /\ tpc' = "returned"
            /\ tresult' = Handled(tool, outcome.exc, 0)
       ELSE /\ tpc' = "propagated"
            /\ tresult' = Propagated(outcome.exc, 0)
    /\ QueryOver
    /\ UNCHANGED <<tool, targ, tstage, credVars, otherVars>>

\* the step under way completes; after the last one the try block returns
StepPasses ==
    /\ tpc = "running" /\ tool # "execute_spark_sql_query"
    /\ MayPass(Body(tool, targ)[tstage], targ)
    /\ IF tstage < Len(Body(tool, targ))
       THEN /\ tstage' = tstage + 1
            /\ UNCHANGED <<tpc, tresult>>
       ELSE /\ tpc' = "returned"
            /\ tresult' = Value(tool)
            /\ UNCHANGED tstage
    /\ UNCHANGED <<tool, targ, credVars, queryVars, otherVars>>

\* the step under way raises, and the entry point's handler takes the
\* exception or lets it through
StepRaises ==
    /\ tpc = "running" /\ tool # "execute_spark_sql_query"
    /\ \E c \in MayRaise(Body(tool, targ)[tstage], targ) :
         LET e == Exc(c, Body(tool, targ)[tstage])
             item == StepItem(tool, targ, tstage)
         IN
         IF Catches(c)
         THEN /\ tpc' = "returned"
              /\ tresult' = Handled(tool, e, item)
         ELSE /\ tpc' = "propagated"
              /\ tresult' = Propagated(e, item)
    /\ UNCHANGED <<tool, targ, tstage, credVars, queryVars, otherVars>>

\* ------------------------------------------------------------------------
\* API gateway: DatabricksClient.request and DatabricksClient.do
\* (_databricks_client.py)
\* ------------------------------------------------------------------------

\* header names a caller may pass, and the values it may give them
HeaderNames == {"Authorization", "X-Request-Id"}

HeaderValues == {<<"Bearer", "caller">>, <<"r-1">>}

\* a dict of headers: a function from the names it holds to their values
EmptyDict == [k \in {} |-> <<>>]

\* the `headers` argument: None (the default) or a dict
NoneHeaders == [is_none |-> TRUE, dict |-> EmptyDict]

CallerHeaderSpace ==
    {NoneHeaders} \cup
    { [is_none |-> FALSE, dict |-> f] : f \in UNION { [K -> HeaderValues] : K \in SUBSET HeaderNames } }

\* `if headers:`: None and {} are falsy
DictTruthy(h) == ~h.is_none /\ DOMAIN h.dict # {}

\* the dict that BaseConfig.headers returns
AsDict(h) ==
    [ k \in {"Authorization", "Content-Type"} |->
        IF k = "Authorization" THEN h.Authorization ELSE <<h.ContentType>> ]

\* base.update(extra) on a copy of base
Updated(base, extra) ==
    [ k \in DOMAIN base \cup DOMAIN extra |-> IF k \in DOMAIN extra THEN extra[k] ELSE base[k] ]

\* HTTP status codes and bodies the server may answer with
StatusCodes == {200, 304, 404, 503}

NoBody == [is_json |-> FALSE, value |-> None]

Bodies == {NoBody, [is_json |-> TRUE, value |-> "v1"]}

\* what requests.request comes back with: an exception of the transport, or
\* a Response
NoWire == [kind |-> "none", exc |-> "none", status |-> 0, body |-> NoBody]

WireSpace ==
    { [kind |-> "transport", exc |-> x, status |-> 0, body |-> NoBody] :
        x \in {"ConnectionError", "Timeout"} }
    \cup
    { [kind |-> "response", exc |-> "none", status |-> st, body |-> b] :
        st \in StatusCodes, b \in Bodies }

\* the outcome of request or do: the Response, the decoded JSON value, or an
\* exception (with the status of the response it is about, if any)
NoClientResult == [kind |-> "none", exc |-> NoExc, status |-> 0, value |-> None]

ClientRaised(e, status) == [kind |-> "raise", exc |-> e, status |-> status, value |-> None]

ResponseResult(w) == [kind |-> "response", exc |-> NoExc, status |-> w.status, value |-> None]

JsonResult(w) == [kind |-> "json", exc |-> NoExc, status |-> w.status, value |-> w.body.value]

NotSent == [reached |-> FALSE, headers |-> EmptyDict]

Sent(h) == [reached |-> TRUE, headers |-> h]

\* DatabricksClient.request on configuration c, with `hr` what the read of
\* config.headers gives, `h` the caller's headers and `w` what
\* requests.request comes back with
request(c, hr, h, w) ==
    IF ~Truthy(c.host)
    THEN [ret |-> ClientRaised(Exc("ValueError", "DATABRICKS_HOST is not configured"), 0),
          sent |-> NotSent]
    ELSE IF hr.exc # NoExc
    THEN [ret |-> ClientRaised(hr.exc, 0), sent |-> NotSent]
    ELSE LET req_headers == IF DictTruthy(h) THEN Updated(AsDict(hr.value), h.dict)
                            ELSE AsDict(hr.value)
         IN
         IF w.kind = "transport"
         THEN [ret |-> ClientRaised(Exc(w.exc, "requests.request"), 0), sent |-> Sent(req_headers)]
         ELSE [ret |-> ResponseResult(w), sent |-> Sent(req_headers)]

\* Response.raise_for_status() raises
IsErrorStatus(st) == 400 <= st /\ st < 600

\* DatabricksClient.do: request, the status check unless opted out, and
\* resp.json()
do(c, hr, h, rfs, w) ==
    LET r == request(c, hr, h, w) IN
    IF r.ret.kind = "raise" THEN r
    ELSE IF rfs /\ IsErrorStatus(w.status)
    THEN [ret |-> ClientRaised(Exc("HTTPError", "raise_for_status"), w.status), sent |-> r.sent]
    ELSE IF w.body.is_json
    THEN [ret |-> JsonResult(w), sent |-> r.sent]
    ELSE [ret |-> ClientRaised(Exc("ValueError", "Failed to parse JSON response"), w.status),
          sent |-> r.sent]

\* what a client call leaves behind: its arguments, what was sent, what came
\* back, its outcome; the read of config.headers acts on the credential
\* store only when the host check let the call get that far
ClientEffectReadsFirst(via, h, rfs, w, hr, r) ==
    /\ kpc' = "done"
    /\ kcall' = [via |-> via, headers |-> h, raise_for_status |-> rfs]
    /\ ksent' = r.sent
    /\ kwire' = IF r.sent.reached THEN w ELSE NoWire
    /\ kret' = r.ret
    /\ Apply(hr)
    /\ UNCHANGED <<env, cpc, cfg>>

ClientEffect(via, h, rfs, w, hr, r) ==
    /\ kpc' = "done"
    /\ kcall' = [via |-> via, headers |-> h, raise_for_status |-> rfs]
    /\ ksent' = r.sent
    /\ kwire' = IF r.sent.reached THEN w ELSE NoWire
    /\ kret' = r.ret
    /\ IF Truthy(cfg.host)
       THEN Apply(hr)
       ELSE UNCHANGED <<access_token, token_expires_at, now, requests, ret, lastToken>>
    /\ UNCHANGED <<env, cpc, cfg>>

\* the token endpoint's possible answers to a read of config.headers: a
\* store that runs on a personal token never asks
AnswersFor(c) ==
    IF Truthy(c.pat_token) THEN {CHOOSE a \in TokenResponses : a.kind = "transport"}
    ELSE TokenResponses

LatenciesFor(c) == IF Truthy(c.pat_token) THEN {0} ELSE Latencies

\* client.request(method, endpoint, headers=h)
ClientRequest ==
    /\ cpc = "ready"
    /\ \E h \in CallerHeaderSpace, w \in WireSpace, answer \in AnswersFor(cfg), d \in LatenciesFor(cfg) :
         LET hr == headers(cfg, access_token, token_expires_at, now, answer, d) IN
         ClientEffect("request", h, TRUE, w, hr, request(cfg, hr.ret, h, w))
    /\ UNCHANGED <<queryVars, toolVars, renderVars, lineageVars, aggVars, threadVars, loopVars>>

\* client.do(method, endpoint, headers=h, raise_for_status=rfs)
ClientDo ==
    /\ cpc = "ready"
    /\ \E h \in CallerHeaderSpace, rfs \in BOOLEAN, w \in WireSpace,
          answer \in AnswersFor(cfg), d \in LatenciesFor(cfg) :
         LET hr == headers(cfg, access_token, token_expires_at, now, answer, d) IN
         ClientEffect("do", h, rfs, w, hr, do(cfg, hr.ret, h, rfs, w))
    /\ UNCHANGED <<queryVars, toolVars, renderVars, lineageVars, aggVars, threadVars, loopVars>>

\* ------------------------------------------------------------------------
\* Renderer: format_table_info and its helpers (utils.py)
\* ------------------------------------------------------------------------

\* one edge of a lineage answer: {"tableInfo": {...}} with the members
\* present; a member that is absent reads as ""
Edge(has, c, sc, t) == [has_tableInfo |-> has, catalog_name |-> c, schema_name |-> sc, name |-> t]

\* a lineage dict that has keys: its "upstreams" and "downstreams" lists, each
\* [] when the key is missing or holds an empty list
Lineage(ups, downs) == [keyed |-> TRUE, upstreams |-> ups, downstreams |-> downs]

\* {} (or None): the lineage with no key at all
EmptyLineage == [keyed |-> FALSE, upstreams |-> <<>>, downstreams |-> <<>>]

\* `if not lineage:`: a dict with any key is truthy
LineageTruthy(l) == l.keyed

\* the lineage the endpoint has for table `name`: its raw copy upstream
LineageOf(name) == Lineage(<<Edge(TRUE, "main", "raw", name)>>, <<>>)

\* TableInfo objects: two names, each bare (no columns, no constraints) or
\* with one column and one primary key
TableNames == {"orders", "customers"}

TableInfo(name, cols, cons) ==
    [ name |-> name, catalog_name |-> "main", schema_name |-> "sales",
      table_type |-> "MANAGED", data_source_format |-> "DELTA", comment |-> None,
      columns |-> cols, table_constraints |-> cons ]

TableSpace ==
    { TableInfo(n, <<>>, <<>>) : n \in TableNames } \cup
    { TableInfo(n, <<"id">>, <<"pk">>) : n \in TableNames }

\* table.full_name
FullName(t) == <<t.catalog_name, t.schema_name, t.name>>

\* a line of a document: what it says (tag), the names it carries (each a
\* tuple of its dotted parts), the count it carries, and the lineage dicts it
\* prints
Line(tag, text, n, dump) == [tag |-> tag, text |-> text, n |-> n, dump |-> dump]

Txt(tag) == Line(tag, <<>>, 0, <<>>)

\* the arguments of a format_table_info call: the tables, lineage_info
\* (omitted, or the list passed), extended, and the list the parameter
\* lineage_info is bound to on entry (the default list when omitted)
NoRenderCall ==
    [tables |-> <<>>, omitted |-> TRUE, lineage_info |-> <<>>, extended |-> FALSE, bound |-> <<>>]

\* what a call gave: the lines of the text returned, or the exception
NoRenderResult == [kind |-> "none", exc |-> NoExc, lines |-> <<>>]

\* _format_columns
format_columns(columns) ==
    IF columns = <<>> THEN <<Txt("No columns defined.")>>
    ELSE <<Txt("| Column | Type | Nullable | Comment |"), Txt("|---|")>>
         \o [i \in 1..Len(columns) |-> Line("column", <<<<columns[i]>>>>, 0, <<>>)]

\* _format_table_constraints
format_table_constraints(constraints) ==
    IF constraints = <<>> THEN <<Txt("No constraints")>>
    ELSE <<Txt("| Constraint Name | Type | Columns | Details | Rely |"), Txt("|---|")>>
         \o [i \in 1..Len(constraints) |-> Line("constraint", <<<<constraints[i]>>>>, 0, <<>>)]

\* the edges considered: tableInfo missing, or present with each of its three
\* members missing or set
EdgeSpace ==
    {Edge(FALSE, "", "", "")} \cup
    { Edge(TRUE, c, sc, t) : c \in {"", "main"}, sc \in {"", "raw"}, t \in {"", "t1", "t2"} }

\* the lineage dicts considered: up to MaxEdges upstream edges, and none or
\* one downstream
LineageSpace ==
    { Lineage(ups, downs) :
        ups \in UNION { [1..n -> EdgeSpace] : n \in 0..MaxEdges },
        downs \in UNION { [1..n -> EdgeSpace] : n \in 0..1 } }
    \cup {EmptyLineage}

\* no name: _extract_table_name returned None
NoName == <<>>

\* _extract_table_name: catalog.schema.table when tableInfo is there and all
\* three members are truthy, else None
ExtractTableNameAny(e) ==
    IF ~e.has_tableInfo THEN NoName
    ELSE IF Truthy(e.catalog_name) \/ Truthy(e.schema_name) \/ Truthy(e.name)
    THEN <<e.catalog_name, e.schema_name, e.name>>
    ELSE NoName

ExtractTableName(e) ==
    IF ~e.has_tableInfo THEN NoName
    ELSE IF Truthy(e.catalog_name) /\ Truthy(e.schema_name) /\ Truthy(e.name)
    THEN <<e.catalog_name, e.schema_name, e.name>>
    ELSE NoName

\* the names appended while looping over one edge list, in order
EdgeNames(edges) ==
    SelectSeq([i \in 1..Len(edges) |-> ExtractTableName(edges[i])], LAMBDA x : x # NoName)

\* one section of the lineage text, when the list gave any name
LineageLines(tag, edges) ==
    IF edges # <<>> /\ EdgeNames(edges) # <<>>
    THEN <<Line(tag, EdgeNames(edges), 0, <<>>)>>
    ELSE <<>>

\* _format_lineage_info
format_lineage_info(l) ==
    IF ~LineageTruthy(l) THEN <<Txt("No lineage information")>>
    ELSE LineageLines("**Upstream Tables:**", l.upstreams)
         \o LineageLines("**Downstream Tables:**", l.downstreams)

NoSection == [done |-> FALSE, exc |-> NoExc, lines |-> <<>>]

\* a call of _format_lineage_info on the lineage dict at hand
FormatLineageInfo ==
    /\ ~lineage_section.done
    /\ lineage_section' = [done |-> TRUE, exc |-> NoExc, lines |-> format_lineage_info(lineage)]
    /\ UNCHANGED <<lineage, table_section>>
    /\ UNCHANGED <<credVars, queryVars, toolVars, clientVars, renderVars, aggVars, threadVars, loopVars>>

\* what a formatting helper gives: its lines, or the exception it raised
Lines(ls) == [exc |-> NoExc, lines |-> ls]

Failing(e) == [exc |-> e, lines |-> <<>>]

\* `x or "UNKNOWN"` followed by `.value`: a str has no attribute `value`
EnumValue(x) == IF Truthy(x) THEN Lines(<<x>>) ELSE Failing(Exc("AttributeError", "value"))

\* _format_single_table(table, lineage)
format_single_table(table, l) ==
    LET ty == EnumValue(table.table_type)
        ds == EnumValue(table.data_source_format)
        lineage_lines == format_lineage_info(l)
    IN
    IF ty.exc # NoExc THEN Failing(ty.exc)
    ELSE IF ds.exc # NoExc THEN Failing(ds.exc)
    ELSE Lines(
        << Txt("## Table Info"),
           Line("**Name:**", <<FullName(table)>>, 0, <<>>),
           Line("**Type:**", <<ty.lines>>, 0, <<>>),
           Line("**Data Format:**", <<ds.lines>>, 0, <<>>),
           Line("**Description:**", <<<<PyOr(table.comment, "No description")>>>>, 0, <<>>),
           Txt("") >>
        \o (IF table.columns # <<>>
            THEN <<Txt("### Schema")>> \o format_columns(table.columns) \o <<Txt("")>>
            ELSE <<>>)
        \o <<Txt("### Constraints")>> \o format_table_constraints(table.table_constraints)
        \o <<Txt("")>>
        \o (IF lineage_lines # <<>>
            THEN <<Txt("### Lineage")>> \o lineage_lines \o <<Txt("")>>
            ELSE <<>>) )

\* a call of _format_single_table(table, lineage) on a table of TableSpace and
\* the lineage dict at hand
FormatSingleTable ==
    /\ ~table_section.done
    /\ \E table \in TableSpace :
         LET r == format_single_table(table, lineage) IN
         table_section' = [done |-> TRUE, exc |-> r.exc, lines |-> r.lines]
    /\ UNCHANGED <<lineage, lineage_section>>
    /\ UNCHANGED <<credVars, queryVars, toolVars, clientVars, renderVars, aggVars, threadVars, loopVars>>

\* the number of parameters in `def _format_single_table(table, lineage)`
FormatSingleTableParams == 2

\* a call of _format_single_table with the positional arguments `args`:
\* Python raises TypeError unless they are as many as the parameters
CallFormatSingleTable(args) ==
    IF Len(args) # FormatSingleTableParams
    THEN Failing(Exc("TypeError", "_format_single_table() takes 2 positional arguments"))
    ELSE format_single_table(args[1], args[2])

\* the lines format_table_info appends when formatting a table raised e:
\* the message, table.as_dict(), and lineage_info (the whole list)
Fallback(table, e, lineage_info) ==
    << Line("Error parsing table info", <<FullName(table), <<e.type>>>>, 0, <<>>),
       Txt(""),
       Txt("Table Info:"),
       Line("as_dict", <<FullName(table)>>, 0, <<>>),
       Txt(""),
       Txt("Lineage Info:"),
       Line("lineage_info", <<>>, 0, lineage_info),
       Txt("") >>

\* the lines for table idx of a detailed document, with the separator unless
\* it is the last: _format_single_table(table, lineage, extended) in try/except
TableSectionDividedAlways(tables, lineage_info, extended, idx) ==
    LET r == CallFormatSingleTable(<<tables[idx], lineage_info[idx], extended>>) IN
    (IF r.exc = NoExc THEN r.lines ELSE Fallback(tables[idx], r.exc, lineage_info))
    \o <<Txt("---"), Txt("")>>

TableSection(tables, lineage_info, extended, idx) ==
    LET r == CallFormatSingleTable(<<tables[idx], lineage_info[idx], extended>>) IN
    (IF r.exc = NoExc THEN r.lines ELSE Fallback(tables[idx], r.exc, lineage_info))
    \o (IF idx < Len(tables) THEN <<Txt("---"), Txt("")>> ELSE <<>>)

\* the sections of tables idx.. of a detailed document
RECURSIVE TableSections(_, _, _, _)
TableSections(tables, lineage_info, extended, idx) ==
    IF idx > Min2(Len(tables), Len(lineage_info)) THEN <<>>
    ELSE TableSection(tables, lineage_info, extended, idx)
         \o TableSections(tables, lineage_info, extended, idx + 1)

\* the summary document
SummaryLines(tables) ==
    << Line("# List of tables in", << <<tables[1].catalog_name, tables[1].schema_name>> >>, 0, <<>>),
       Txt(""),
       Line("*Number of Tables*:", <<>>, Len(tables), <<>>),
       Txt(""),
       Txt("## Table names:"),
       Txt(""),
       Line("names", [i \in 1..Len(tables) |-> <<tables[i].name>>], 0, <<>>),
       Txt("") >>

RenderText(ls) == [kind |-> "text", exc |-> NoExc, lines |-> ls]

RenderRaised(e) == [kind |-> "raise", exc |-> e, lines |-> <<>>]

\* format_table_info(table_info, lineage_info, extended) with `dflt` the
\* content of the default list: what it gives and the default list after it
format_table_info(tables, omitted, passed, extended, dflt) ==
    LET given == IF omitted THEN dflt ELSE passed IN
    IF tables = <<>>
    THEN [out |-> RenderText(<<Txt("**No tables found**")>>), dflt |-> dflt]
    ELSE IF given # <<>> /\ Len(tables) # Len(given)
    THEN [out |-> RenderRaised(Exc("AssertionError", "table info and lineage info length mismatch")),
          dflt |-> dflt]
    ELSE LET lineage_info == IF given # <<>> THEN given
                             ELSE [i \in 1..Len(tables) |-> EmptyLineage]
         IN
         [ out |-> IF extended
                   THEN RenderText(<<Txt("# Table Information"), Txt("")>>
                                   \o TableSections(tables, lineage_info, extended, 1))
                   ELSE RenderText(SummaryLines(tables)),
           dflt |-> IF omitted THEN lineage_info ELSE dflt ]

\* the table lists a call may pass
TableLists == UNION { [1..n -> TableSpace] : n \in 0..MaxTables }

\* the lineage_info a call may pass with them: none (the default is used), an
\* empty list, the lineage of each table, or a list that is one too long
LineageArgs(tables) ==
    LET own == [i \in 1..Len(tables) |-> LineageOf(tables[i].name)] IN
    { [omitted |-> TRUE, list |-> <<>>],
      [omitted |-> FALSE, list |-> <<>>],
      [omitted |-> FALSE, list |-> own],
      [omitted |-> FALSE, list |-> own \o <<EmptyLineage>>] }

\* a call of format_table_info
FormatTableInfo ==
    /\ \E tables \in TableLists, extended \in BOOLEAN :
         \E a \in LineageArgs(tables) :
            LET r == format_table_info(tables, a.omitted, a.list, extended, default_lineage_info) IN
            /\ rcall' = [tables |-> tables, omitted |-> a.omitted, lineage_info |-> a.list,
                         extended |-> extended,
                         bound |-> IF a.omitted THEN default_lineage_info ELSE a.list]
            /\ rout' = r.out
            /\ default_lineage_info' = r.dflt
    /\ UNCHANGED <<credVars, queryVars, toolVars, clientVars, lineageVars, aggVars, threadVars, loopVars>>

\* ------------------------------------------------------------------------
\* Metadata aggregation: get_table_info (unitycatalog.py) over
\* get_table_lineage (lineage.py)
\* ------------------------------------------------------------------------

\* the table_names lists considered
NameLists == UNION { [1..n -> TableNames] : n \in 0..MaxTables }

NoFetchFailure == [idx |-> 0, step |-> "none"]

\* get_table_info raises e, from the fetch `step` for the name at gidx
AggRaises(e, step) ==
    /\ gpc' = "done"
    /\ gfail' = [idx |-> gidx, step |-> step]
    /\ gout' = RenderRaised(e)
    /\ UNCHANGED <<table_names, gidx, fetched_tables, fetched_lineage>>

\* sdk_client.tables.get(full_name=table_name): the TableInfo of that name,
\* or an error of the SDK
TablesGet ==
    /\ gpc = "table"
    /\ \/ /\ \E t \in TableSpace :
               /\ t.name = table_names[gidx]
               /\ fetched_tables' = Append(fetched_tables, t)
          /\ gpc' = "lineage"
          /\ UNCHANGED <<table_names, gidx, fetched_lineage, gfail, gout>>
       \/ AggRaises(Exc("DatabricksError", "tables.get"), "table")
    /\ UNCHANGED <<credVars, queryVars, toolVars, clientVars, renderVars, lineageVars, threadVars, loopVars>>

\* get_table_lineage(table_name): client.do("GET", endpoint, params); its
\* JSON answer is appended, and whatever it raises leaves get_table_info
GetTableLineage ==
    /\ gpc = "lineage"
    /\ \E w \in WireSpace, answer \in AnswersFor(cfg), d \in LatenciesFor(cfg) :
         LET hr == headers(cfg, access_token, token_expires_at, now, answer, d)
             r == do(cfg, hr.ret, NoneHeaders, TRUE, w)
         IN
         /\ ClientEffect("do", NoneHeaders, TRUE, w, hr, r)
         /\ IF r.ret.kind = "raise"
            THEN AggRaises(r.ret.exc, "lineage")
            ELSE /\ \E l \in {LineageOf(table_names[gidx]), EmptyLineage} :
                      fetched_lineage' = Append(fetched_lineage, l)
                 /\ gidx' = gidx + 1
                 /\ gpc' = IF gidx < Len(table_names) THEN "table" ELSE "render"
                 /\ UNCHANGED <<table_names, fetched_tables, gfail, gout>>
    /\ UNCHANGED <<queryVars, toolVars, renderVars, lineageVars, threadVars, loopVars>>

\* format_table_info(table_info=table_info, lineage_info=lineage_info,
\* extended=True), and its result returned
RenderBatch ==
    /\ gpc = "render"
    /\ LET r == format_table_info(fetched_tables, FALSE, fetched_lineage, TRUE,
                                  default_lineage_info)
       IN
       /\ gout' = r.out
       /\ rout' = r.out
       /\ rcall' = [tables |-> fetched_tables, omitted |-> FALSE,
                    lineage_info |-> fetched_lineage, extended |-> TRUE,
                    bound |-> fetched_lineage]
       /\ default_lineage_info' = r.dflt
    /\ gpc' = "done"
    /\ UNCHANGED <<table_names, gidx, fetched_tables, fetched_lineage, gfail>>
    /\ UNCHANGED <<credVars, queryVars, toolVars, clientVars, lineageVars, threadVars, loopVars>>

\* ------------------------------------------------------------------------
\* Worker threads reading BaseConfig.headers on the shared BaseConfig
\* ------------------------------------------------------------------------

Threads == 1..MaxThreads

\* no token response held by a thread
NoHeld == [id |-> 0, expires_in |-> [kind |-> "absent", val |-> 0]]

\* what the token endpoint answers a worker thread: no answer, a body
\* without a token, or a token with or without a lifetime
ThreadAnswers ==
    { a \in TokenResponses :
        /\ a.kind \in {"transport", "ok"}
        /\ a.access_token # ""
        /\ a.expires_in \in {[kind |-> "absent", val |-> 0], [kind |-> "num", val |-> 11]} }

\* thread t begins a read of config.headers: _ensure_oauth_token tests the
\* cache and, unless the token is valid, sends the token request and waits
ThreadReads(t) ==
    /\ cpc = "ready"
    /\ thread_pc[t] \in {"idle", "done", "raised"}
    /\ LET e == ensure_oauth_token(cfg, access_token, token_expires_at, now,
                                   CHOOSE a \in TokenResponses : a.kind = "transport", 0)
       IN
       IF e.posts = 0
       THEN /\ thread_pc' = [thread_pc EXCEPT ![t] = IF e.exc = NoExc THEN "done" ELSE "raised"]
            /\ ret' = IF e.exc # NoExc THEN Raised("headers", e.exc, 0)
                      ELSE Returned("headers",
                                    BearerHeaders(PyOr(cfg.pat_token, access_token)), 0)
            /\ UNCHANGED <<requests, thread_held>>
       ELSE /\ requests < MaxRequests
            /\ requests' = requests + 1
            /\ thread_pc' = [thread_pc EXCEPT ![t] = "posting"]
            /\ thread_held' = [thread_held EXCEPT ![t] = [NoHeld EXCEPT !.id = requests + 1]]
            /\ UNCHANGED ret
    /\ UNCHANGED <<env, cpc, cfg, access_token, token_expires_at, now, lastToken, stored_from>>
    /\ UNCHANGED <<queryVars, toolVars, clientVars, renderVars, lineageVars, aggVars, loopVars>>

\* the token endpoint answers thread t: _ensure_oauth_token raises, or
\* assigns self.access_token and goes on to the expiry
TokenArrives(t) ==
    /\ thread_pc[t] = "posting"
    /\ \E answer \in ThreadAnswers :
         LET e == TokenRequest(access_token, token_expires_at, now, answer, 0, FALSE) IN
         IF e.exc # NoExc
         THEN /\ ret' = Raised("headers", e.exc, 1)
              /\ thread_pc' = [thread_pc EXCEPT ![t] = "raised"]
              /\ thread_held' = [thread_held EXCEPT ![t] = NoHeld]
              /\ UNCHANGED <<access_token, lastToken, stored_from>>
         ELSE /\ access_token' = e.access_token
              /\ lastToken' = e.got
              /\ stored_from' = [stored_from EXCEPT !.token = thread_held[t].id]
              /\ thread_pc' = [thread_pc EXCEPT ![t] = "storing"]
              /\ thread_held' = [thread_held EXCEPT ![t].expires_in = answer.expires_in]
              /\ UNCHANGED ret
    /\ UNCHANGED <<env, cpc, cfg, token_expires_at, now, requests>>
    /\ UNCHANGED <<queryVars, toolVars, clientVars, renderVars, lineageVars, aggVars, loopVars>>

\* thread t finishes _ensure_oauth_token: self.token_expires_at is assigned
\* when the response carried a usable expires_in, and headers returns the
\* token the store holds by then
StoresExpiry(t) ==
    /\ thread_pc[t] = "storing"
    /\ token_expires_at' = ExpiresAt(thread_held[t].expires_in, now, token_expires_at)
    /\ stored_from' = IF TruthyExpiresIn(thread_held[t].expires_in)
                         /\ TruthyNum(FloatOf(thread_held[t].expires_in))
                      THEN [stored_from EXCEPT !.expiry = thread_held[t].id]
                      ELSE stored_from
    /\ ret' = Returned("headers", BearerHeaders(access_token), 1)
    /\ thread_pc' = [thread_pc EXCEPT ![t] = "done"]
    /\ thread_held' = [thread_held EXCEPT ![t] = NoHeld]
    /\ UNCHANGED <<env, cpc, cfg, access_token, now, requests, lastToken>>
    /\ UNCHANGED <<queryVars, toolVars, clientVars, renderVars, lineageVars, aggVars, loopVars>>

ThreadStep == \E t \in Threads : ThreadReads(t) \/ TokenArrives(t) \/ StoresExpiry(t)

\* ------------------------------------------------------------------------
\* The event loop under the tool entry points (tools.py, async def)
\* ------------------------------------------------------------------------

Calls == 1..MaxCalls

\* the entry points that hand their work to asyncio.to_thread
Offloads(t) == t # "execute_spark_sql_query"

\* no coroutine holds the event loop
LoopFree == \A c \in Calls : call_pc[c] # "blocking"

\* the event loop starts the coroutine of call c and runs it to its first
\* await: the await of asyncio.to_thread, or, in execute_spark_sql_query,
\* none before execute_query(query=query) is over
CallStarts(c) ==
    /\ LoopFree
    /\ call_pc[c] \in {"new", "done"}
    /\ \E t \in Tools :
         /\ call_tool' = [call_tool EXCEPT ![c] = t]
         /\ IF Offloads(t)
            THEN /\ call_pc' = [call_pc EXCEPT ![c] = "offloaded"]
                 /\ UNCHANGED queryVars
            ELSE /\ call_pc' = [call_pc EXCEPT ![c] = "blocking"]
                 /\ stmt' \in ToolStatements
                 /\ srvState' = "PENDING"
                 /\ qpc' = "start"
                 /\ resp' = NoResponse
                 /\ spins' = 0
                 /\ outcome' = NoOutcome
                 /\ UNCHANGED getCalls
    /\ UNCHANGED <<credVars, toolVars, clientVars, renderVars, lineageVars, aggVars, threadVars>>

\* the worker thread of call c is through: the awaited future is done
WorkerDone(c) ==
    /\ call_pc[c] = "offloaded"
    /\ call_pc' = [call_pc EXCEPT ![c] = "ready"]
    /\ UNCHANGED <<call_tool, credVars, queryVars, toolVars>>
    /\ UNCHANGED <<clientVars, renderVars, lineageVars, aggVars, threadVars>>

\* the event loop resumes the coroutine of call c, which returns its result
CallResumes(c) ==
    /\ LoopFree
    /\ call_pc[c] = "ready"
    /\ call_pc' = [call_pc EXCEPT ![c] = "done"]
    /\ UNCHANGED <<call_tool, credVars, queryVars, toolVars>>
    /\ UNCHANGED <<clientVars, renderVars, lineageVars, aggVars, threadVars>>

\* execute_query is over (returned or raised) and the coroutine of call c,
\* which ran it on the event loop, returns
BlockingReturns(c) ==
    /\ call_pc[c] = "blocking"
    /\ qpc \in {"done", "raised"}
    /\ call_pc' = [call_pc EXCEPT ![c] = "done"]
    /\ QueryOver
    /\ UNCHANGED <<call_tool, credVars, toolVars>>
    /\ UNCHANGED <<clientVars, renderVars, lineageVars, aggVars, threadVars>>

LoopStep ==
    \E c \in Calls : CallStarts(c) \/ WorkerDone(c) \/ CallResumes(c) \/ BlockingReturns(c)

vars == <<credVars, queryVars, toolVars, otherVars>>

\* the credential store before BaseConfig.authorize() has run
CredInit ==
    /\ env \in EnvSpace
    /\ cpc = "start"
    /\ cfg = NoConfig
    /\ access_token = None
    /\ token_expires_at = NoTime
    /\ now = StartTime
    /\ requests = 0
    /\ ret = NoCall
    /\ lastToken = NoToken

\* the credential store of a process that runs on a personal token
CredFixed ==
    /\ env = [ DATABRICKS_HOST |-> "https://adb.example", DATABRICKS_TOKEN |-> "pat-1",
               DATABRICKS_PAT |-> None, DATABRICKS_CLIENT_ID |-> None,
               DATABRICKS_CLIENT_SECRET |-> None, DATABRICKS_OAUTH_TOKEN_URL |-> None,
               DATABRICKS_OAUTH_SCOPE |-> None ]
    /\ cpc = "ready"
    /\ cfg = NewConfig("https://adb.example", "pat-1", None, None, None, None)
    /\ access_token = None
    /\ token_expires_at = NoTime
    /\ now = StartTime
    /\ requests = 0
    /\ ret = NoCall
    /\ lastToken = NoToken

\* no execute_query call is under way
QueryIdle ==
    /\ stmt = NoStatement
    /\ srvState = "PENDING"
    /\ qpc = "idle"
    /\ resp = NoResponse
    /\ getCalls = 0
    /\ spins = 0
    /\ outcome = NoOutcome

\* the credential store of a process that runs on a personal token, with the
\* host it was given
CredPat(host) ==
    /\ env = [ DATABRICKS_HOST |-> host, DATABRICKS_TOKEN |-> "pat-1",
               DATABRICKS_PAT |-> None, DATABRICKS_CLIENT_ID |-> None,
               DATABRICKS_CLIENT_SECRET |-> None, DATABRICKS_OAUTH_TOKEN_URL |-> None,
               DATABRICKS_OAUTH_SCOPE |-> None ]
    /\ cpc = "ready"
    /\ cfg = NewConfig(host, "pat-1", None, None, None, None)
    /\ access_token = None
    /\ token_expires_at = NoTime
    /\ now = StartTime
    /\ requests = 0
    /\ ret = NoCall
    /\ lastToken = NoToken

\* the credential store of a process that runs on client credentials and was
\* given no host, with the token authorize() got (which came without a
\* lifetime)
CredClientNoHost ==
    /\ env = [ DATABRICKS_HOST |-> None, DATABRICKS_TOKEN |-> None,
               DATABRICKS_PAT |-> None, DATABRICKS_CLIENT_ID |-> "client",
               DATABRICKS_CLIENT_SECRET |-> "secret",
               DATABRICKS_OAUTH_TOKEN_URL |-> "https://idp.example/token",
               DATABRICKS_OAUTH_SCOPE |-> None ]
    /\ cpc = "ready"
    /\ cfg = NewConfig(None, None, "client", "secret", "https://idp.example/token", None)
    /\ access_token = "t1"
    /\ token_expires_at = NoTime
    /\ now = StartTime
    /\ requests = 0
    /\ ret = NoCall
    /\ lastToken = NoToken

\* no client call was made
ClientIdle ==
    /\ kpc = "idle"
    /\ kcall = [via |-> "none", headers |-> NoneHeaders, raise_for_status |-> TRUE]
    /\ ksent = NotSent
    /\ kwire = NoWire
    /\ kret = NoClientResult

\* format_table_info's default list as the module's load leaves it, and no
\* call made
RenderIdle ==
    /\ default_lineage_info = <<>>
    /\ rcall = NoRenderCall
    /\ rout = NoRenderResult

\* no call of _format_lineage_info
LineageIdle ==
    /\ lineage = EmptyLineage
    /\ lineage_section = NoSection
    /\ table_section = NoSection

\* no call of get_table_info
AggIdle ==
    /\ table_names = <<>>
    /\ gpc = "idle"
    /\ gidx = 1
    /\ fetched_tables = <<>>
    /\ fetched_lineage = <<>>
    /\ gfail = NoFetchFailure
    /\ gout = NoRenderResult

\* no worker thread is in a read of config.headers
ThreadsIdle ==
    /\ thread_pc = [t \in Threads |-> "idle"]
    /\ thread_held = [t \in Threads |-> NoHeld]
    /\ stored_from = [token |-> 0, expiry |-> 0]

\* no tool call has reached the event loop
LoopIdle ==
    /\ call_tool = [c \in Calls |-> "none"]
    /\ call_pc = [c \in Calls |-> "new"]

OtherIdle == ClientIdle /\ RenderIdle /\ LineageIdle /\ AggIdle /\ ThreadsIdle /\ LoopIdle

\* no tool call is under way
ToolIdle ==
    /\ tool = "none"
    /\ targ = 0
    /\ tpc = "idle"
    /\ tstage = 1
    /\ tresult = NoResult

\* the credential store, from process start
Init == CredInit /\ QueryIdle /\ ToolIdle /\ OtherIdle

Next == Authorize \/ Headers \/ Tick

Spec == Init /\ [][Next]_vars

\* one execute_query call, on any statement of StatementSpace
QueryInit ==
    /\ CredFixed
    /\ ToolIdle
    /\ OtherIdle
    /\ stmt \in StatementSpace
    /\ srvState = "PENDING"
    /\ qpc = "start"
    /\ resp = NoResponse
    /\ getCalls = 0
    /\ spins = 0
    /\ outcome = NoOutcome

QueryNext == WarehouseStep \/ ExecuteStatement \/ LoopIteration

QuerySpec == QueryInit /\ [][QueryNext]_vars

\* the tool entry points, called one after another
ToolInit == CredFixed /\ QueryIdle /\ ToolIdle /\ OtherIdle

ToolNext ==
    \/ fetch_schemas_in_catalog
    \/ fetch_tables_in_schema
    \/ fetch_table_info
    \/ execute_spark_sql_query
    \/ StepPasses
    \/ StepRaises
    \/ WarehouseStep
    \/ ExecuteStatement
    \/ LoopIteration
    \/ QueryToolReturns
    \/ QueryToolExcept

ToolSpec == ToolInit /\ [][ToolNext]_vars

\* client calls, one after another, of a process with or without a host
ClientInit ==
    /\ \/ \E h \in {None, "https://adb.example"} : CredPat(h)
       \/ CredClientNoHost
    /\ QueryIdle
    /\ ToolIdle
    /\ ClientIdle
    /\ RenderIdle
    /\ LineageIdle
    /\ AggIdle
    /\ ThreadsIdle
    /\ LoopIdle

ClientNext == ClientRequest \/ ClientDo

ClientSpec == ClientInit /\ [][ClientNext]_vars

\* one call of _format_lineage_info and one of _format_single_table, on any
\* lineage dict of LineageSpace
LineageInit ==
    /\ CredFixed
    /\ QueryIdle
    /\ ToolIdle
    /\ ClientIdle
    /\ RenderIdle
    /\ AggIdle
    /\ ThreadsIdle
    /\ LoopIdle
    /\ lineage \in LineageSpace
    /\ lineage_section = NoSection
    /\ table_section = NoSection

LineageNext == FormatLineageInfo \/ FormatSingleTable

LineageSpec == LineageInit /\ [][LineageNext]_vars

\* format_table_info calls, one after another, from module load
RenderInit ==
    /\ CredFixed
    /\ QueryIdle
    /\ ToolIdle
    /\ ClientIdle
    /\ RenderIdle
    /\ LineageIdle
    /\ AggIdle
    /\ ThreadsIdle
    /\ LoopIdle

RenderNext == FormatTableInfo

RenderSpec == RenderInit /\ [][RenderNext]_vars

\* one call of get_table_info, on any list of NameLists
AggInit ==
    /\ CredFixed
    /\ QueryIdle
    /\ ToolIdle
    /\ ClientIdle
    /\ RenderIdle
    /\ LineageIdle
    /\ ThreadsIdle
    /\ LoopIdle
    /\ table_names \in NameLists
    /\ gpc = IF table_names = <<>> THEN "render" ELSE "table"
    /\ gidx = 1
    /\ fetched_tables = <<>>
    /\ fetched_lineage = <<>>
    /\ gfail = NoFetchFailure
    /\ gout = NoRenderResult

AggNext == TablesGet \/ GetTableLineage \/ RenderBatch

AggSpec == AggInit /\ [][AggNext]_vars

\* a process that runs on client credentials, after authorize() got its
\* first token: with an expiry in the past or ahead, or with none
ThreadInit ==
    /\ env = [ DATABRICKS_HOST |-> "https://adb.example", DATABRICKS_TOKEN |-> None,
               DATABRICKS_PAT |-> None, DATABRICKS_CLIENT_ID |-> "client",
               DATABRICKS_CLIENT_SECRET |-> "secret",
               DATABRICKS_OAUTH_TOKEN_URL |-> "https://idp.example/token",
               DATABRICKS_OAUTH_SCOPE |-> None ]
    /\ cpc = "ready"
    /\ cfg = NewConfig("https://adb.example", None, "client", "secret",
                       "https://idp.example/token", None)
    /\ access_token = "t1"
    /\ token_expires_at \in {NoTime, <<StartTime>>, <<StartTime + 2>>}
    /\ now = StartTime
    /\ requests = 0
    /\ ret = NoCall
    /\ lastToken = NoToken
    /\ QueryIdle
    /\ ToolIdle
    /\ OtherIdle

ThreadNext == ThreadStep \/ Tick

ThreadSpec == ThreadInit /\ [][ThreadNext]_vars

\* one execute_query call whose own steps are always taken in the end: the
\* thread that runs it is scheduled, while the warehouse may leave the
\* statement where it is for ever
QueryLiveSpec ==
    QuerySpec /\ WF_vars(ExecuteStatement) /\ WF_vars(LoopIteration)

\* tool calls arriving at the event loop of a server that runs on a personal
\* token
LoopInit == CredFixed /\ QueryIdle /\ ToolIdle /\ OtherIdle

LoopNext == LoopStep \/ WarehouseStep \/ ExecuteStatement \/ LoopIteration

LoopSpec == LoopInit /\ [][LoopNext]_vars

\* ------------------------------------------------------------------------
\* Properties of the credential store
\* ------------------------------------------------------------------------

\* a BaseConfig of the ClientCredentials variant exists
ClientCredentials == cpc = "ready" /\ cfg.pat_token = None /\ cfg.client_id # None

\* a BaseConfig of the PersonalToken variant exists
PersonalToken == cpc = "ready" /\ cfg.pat_token # None

\* C1: in a ClientCredentials configuration, a resolve() made while the cached
\* token is valid (now < expires_at) issues no token request and returns the
\* cached token, leaving the cache alone; a resolve() made after expiry issues
\* exactly one token request and, that request answered with a token, returns
\* the token it has just cached.
C1_ReuseWhileValidRefreshOnceAfterExpiry ==
    [][ (ClientCredentials /\ access_token # None /\ token_expires_at # NoTime /\ Headers) =>
          IF now < token_expires_at[1]
          THEN /\ requests' = requests
               /\ ret'.posts = 0
               /\ ret'.exc = NoExc
               /\ ret'.value.Authorization = <<"Bearer", access_token>>
               /\ UNCHANGED <<access_token, token_expires_at>>
          ELSE /\ requests' = requests + 1
               /\ ret'.posts = 1
               /\ ret'.exc = NoExc =>
                    /\ lastToken'.received_at = now'
                    /\ access_token' = lastToken'.access_token
                    /\ ret'.value.Authorization = <<"Bearer", access_token'>> ]_vars

\* a resolve() has reused a token that an earlier resolve() had refreshed
C1_Witness ==
    /\ ClientCredentials
    /\ ret.op = "headers" /\ ret.exc = NoExc /\ ret.posts = 0
    /\ requests >= 2
    /\ token_expires_at # NoTime /\ now < token_expires_at[1]

\* the response carried a positive lifetime
PositiveExpiresIn(e) == e.kind \in {"num", "numstr"} /\ e.val > 0

\* C2: a token obtained at time T with a positive expires_in = E, at startup
\* or on refresh, is cached with expires_at = T + E - 10; every resolve() at
\* t < T + E - 10 reuses it, and a resolve() at t >= T + E - 10 issues exactly
\* one new token request.
C2_ExpiryIsLifetimeMinusTen ==
    /\ [](  (ClientCredentials /\ PositiveExpiresIn(lastToken.expires_in)) =>
             /\ access_token = lastToken.access_token
             /\ token_expires_at = <<lastToken.received_at + lastToken.expires_in.val - 10>> )
    /\ [][ (ClientCredentials /\ PositiveExpiresIn(lastToken.expires_in) /\ Headers) =>
             IF now < lastToken.received_at + lastToken.expires_in.val - 10
             THEN /\ requests' = requests
                  /\ ret'.posts = 0
                  /\ ret'.value.Authorization = <<"Bearer", lastToken.access_token>>
             ELSE /\ requests' = requests + 1
                  /\ ret'.posts = 1 ]_vars

\* a resolve() at or after T + E - 10 has fetched a new token, itself with a
\* positive lifetime
C2_Witness ==
    /\ ClientCredentials
    /\ ret.op = "headers" /\ ret.exc = NoExc /\ ret.posts = 1
    /\ requests >= 2
    /\ PositiveExpiresIn(lastToken.expires_in)
    /\ lastToken.received_at = now
    /\ token_expires_at = <<now + lastToken.expires_in.val - 10>>

\* C3: with a personal token present, every resolve() performs no network
\* call, leaves access_token and token_expires_at untouched and returns the
\* same Authorization header, built from the personal token.
C3_PersonalTokenIsStatic ==
    PersonalToken =>
        /\ requests = 0
        /\ access_token = None
        /\ token_expires_at = NoTime
        /\ ret.op = "headers" =>
             /\ ret.exc = NoExc
             /\ ret.posts = 0
             /\ ret.value.Authorization = <<"Bearer", cfg.pat_token>>

\* a resolve() has returned in a PersonalToken configuration, after time passed
C3_Witness == PersonalToken /\ ret.op = "headers" /\ now > StartTime

\* an environment variable is configured: set, and not to the empty string
Configured(v) == v # None /\ v # ""

\* C8: authorize selects PersonalToken whenever a personal token is
\* configured, issuing no token request; otherwise ClientCredentials when
\* client id and secret are both configured, failing with a configuration
\* error when the token URL is absent; otherwise it fails with a
\* configuration error. The failing cases issue no token request.
C8_SelectionOrder ==
    cpc # "start" =>
        IF Configured(env.DATABRICKS_TOKEN) \/ Configured(env.DATABRICKS_PAT)
        THEN /\ PersonalToken
             /\ cfg.pat_token \in {env.DATABRICKS_TOKEN, env.DATABRICKS_PAT}
             /\ cfg.client_id = None /\ cfg.client_secret = None
             /\ requests = 0
        ELSE IF Configured(env.DATABRICKS_CLIENT_ID) /\ Configured(env.DATABRICKS_CLIENT_SECRET)
        THEN IF ~Configured(env.DATABRICKS_OAUTH_TOKEN_URL)
             THEN /\ cpc = "failed"
                  /\ ret.exc.type = "ValueError"
                  /\ requests = 0
             ELSE /\ requests >= 1
                  /\ cpc = "ready" =>
                       /\ ClientCredentials
                       /\ cfg.client_id = env.DATABRICKS_CLIENT_ID
                       /\ cfg.client_secret = env.DATABRICKS_CLIENT_SECRET
                       /\ cfg.oauth_token_url = env.DATABRICKS_OAUTH_TOKEN_URL
        ELSE /\ cpc = "failed"
             /\ ret.exc.type = "ValueError"
             /\ requests = 0

\* authorize has refused client credentials that came without a token URL
C8_Witness ==
    /\ cpc = "failed"
    /\ Configured(env.DATABRICKS_CLIENT_ID) /\ Configured(env.DATABRICKS_CLIENT_SECRET)
    /\ ~Configured(env.DATABRICKS_OAUTH_TOKEN_URL)
    /\ ret.op = "authorize" /\ requests = 0

\* C9: when the token endpoint's successful response carries no expires_in,
\* the token is cached without an expiry and treated as always valid: every
\* later resolve() reuses it and issues no further token request.
C9_NoExpiryMeansAlwaysValid ==
    [][ (ClientCredentials /\ lastToken # NoToken
                /\ lastToken.expires_in.kind = "absent" /\ Headers) =>
          /\ requests' = requests
          /\ ret'.posts = 0
          /\ ret'.value.Authorization = <<"Bearer", lastToken.access_token>> ]_vars

\* ------------------------------------------------------------------------
\* Properties of execute_query
\* ------------------------------------------------------------------------

\* execute_query holds a response in state st
Holds(st) == resp.has_status /\ resp.state = st

\* the rows of the response held: none when data_array is missing
HeldRows == IF resp.data_array.is_none THEN <<>> ELSE resp.data_array.rows

\* C4: while the response held is in a non-terminal state (PENDING or
\* RUNNING), each pass of the loop fetches the statement status by id again
\* and so holds the warehouse's current state afterwards (which is how a
\* statement that ends at the warehouse is seen to end by execute_query).
C4_PollRefetchesStatus ==
    [][ (qpc = "loop" /\ resp.has_status /\ resp.state \in NonTerminalStates /\ LoopIteration) =>
          /\ getCalls' = getCalls + 1
          /\ resp'.state = srvState ]_vars

\* C5 as claimed: a SUCCEEDED response with N declared columns and M rows
\* makes execute_query return state SUCCEEDED with exactly M records in data
\* order, each record's key set the declared column-name set and each value
\* the row's value at that column's position.
C5_RecordsHoldEveryColumnsValue ==
    (qpc = "done" /\ Holds("SUCCEEDED")) =>
        /\ outcome.kind = "return" /\ outcome.state = "SUCCEEDED"
        /\ outcome.has_data /\ ~outcome.has_error
        /\ Len(outcome.data) = Len(HeldRows)
        /\ \A i \in 1..Len(HeldRows) :
             /\ DOMAIN outcome.data[i] = { resp.columns[j] : j \in 1..Len(resp.columns) }
             /\ \A j \in 1..Len(resp.columns) :
                  outcome.data[i][resp.columns[j]] = HeldRows[i][j]

\* C5 as amended: the same, each value being the row's value at the last
\* position that declares the record's key (that column's own position
\* whenever the declared names are distinct); and a SUCCEEDED response ends
\* the call at the first pass of the loop.
C5_RecordsHoldLastValueOfEachName ==
    /\ []( (qpc = "done" /\ Holds("SUCCEEDED")) =>
            /\ outcome.kind = "return" /\ outcome.state = "SUCCEEDED"
            /\ outcome.has_data /\ ~outcome.has_error
            /\ Len(outcome.data) = Len(HeldRows)
            /\ \A i \in 1..Len(HeldRows) :
                 /\ DOMAIN outcome.data[i] = { resp.columns[j] : j \in 1..Len(resp.columns) }
                 /\ \A j \in 1..Len(resp.columns) :
                      (\A k \in (j+1)..Len(resp.columns) : resp.columns[k] # resp.columns[j]) =>
                          outcome.data[i][resp.columns[j]] = HeldRows[i][j] )
    /\ [][ (qpc = "loop" /\ Holds("SUCCEEDED") /\ LoopIteration) => qpc' = "done" ]_vars

\* columns [id, name] and rows [[a, b], [b, a]] came back as
\* [{id: a, name: b}, {id: b, name: a}]
C5_Witness ==
    /\ qpc = "done" /\ Holds("SUCCEEDED")
    /\ resp.columns = <<"id", "name">>
    /\ HeldRows = << <<"a", "b">>, <<"b", "a">> >>
    /\ outcome.data = << [id |-> "a", name |-> "b"], [id |-> "b", name |-> "a"] >>

\* C6: every response in state FAILED, whatever else its status carries,
\* makes the pass of the loop that sees it end the call in a query-error
\* outcome that holds the error code and the message, and never in a result
\* set.
C6_FailedYieldsQueryError ==
    [][ (qpc = "loop" /\ Holds("FAILED") /\ LoopIteration) =>
          /\ qpc' = "done"
          /\ outcome'.kind = "return" /\ outcome'.state = "FAILED"
          /\ outcome'.has_error /\ ~outcome'.has_data
          /\ \E i \in DOMAIN outcome'.error : outcome'.error[i] = resp.error.error_code
          /\ \E i \in DOMAIN outcome'.error : outcome'.error[i] = resp.error.message ]_vars

\* C7: a response in a terminal state other than SUCCEEDED (CANCELED, CLOSED,
\* or FAILED with or without an error payload) makes the pass of the loop
\* that sees it end the call with a failure, not with data and not with
\* another pass.
C7_NonSuccessTerminalFails ==
    [][ (qpc = "loop" /\ resp.has_status /\ resp.state \in TerminalStates \ {"SUCCEEDED"}
                /\ LoopIteration) =>
          /\ qpc' \in {"done", "raised"}
          /\ outcome'.has_error \/ outcome'.kind = "raise"
          /\ ~outcome'.has_data ]_vars

\* ------------------------------------------------------------------------
\* Properties of the tool entry points
\* ------------------------------------------------------------------------

\* C10: each of the four entry points catches every error raised beneath it:
\* no exception reaches the transport, and a call in which a step fails
\* (credential resolution, HTTP, SDK call, argument check or rendering)
\* returns an error text block with the error (the text tools) or
\* {state: "FAILED", error: <message>} (the query tool).
C10_NoExceptionLeavesATool ==
    /\ [](tpc # "propagated" /\ tresult.kind # "propagated")
    /\ [][ (StepRaises \/ QueryToolExcept) =>
            /\ tpc' = "returned"
            /\ tresult'.details.type # "none"
            /\ IF tool = "execute_spark_sql_query"
               THEN tresult'.kind = "failed_dict" /\ tresult'.title = "FAILED"
               ELSE tresult'.kind = "error_text" ]_vars

\* fetch_table_info was called with something that is no list, and returned
\* an error text block for the AssertionError
C10_Witness ==
    /\ tool = "fetch_table_info" /\ targ = -1
    /\ tpc = "returned"
    /\ tresult.kind = "error_text"
    /\ tresult.details.type = "AssertionError"

\* ------------------------------------------------------------------------
\* Properties of the API gateway
\* ------------------------------------------------------------------------

\* C11: in every call of request or do that reaches the network, whatever
\* headers the caller supplied (an Authorization among them or not), the
\* Authorization header sent is the one the credential store supplied.
C11_StoreAuthorizationIsSent ==
    (kpc = "done" /\ ksent.reached) =>
        ksent.headers["Authorization"] = ret.value.Authorization

\* C12: do classifies every outcome: a transport failure raises a transport
\* error; a non-2xx response raises an HTTP error with its status unless
\* raise_for_status=False was passed, and then no HTTP error is raised and
\* the body is decoded; a 2xx response whose body is no JSON raises a decode
\* error; only a decodable body yields a JSON value.
C12_DoClassifiesEveryOutcome ==
    (kpc = "done" /\ kcall.via = "do" /\ ksent.reached) =>
        LET Is2xx == 200 <= kwire.status /\ kwire.status < 300
            Decoded == IF kwire.body.is_json
                       THEN kret.kind = "json" /\ kret.value = kwire.body.value
                       ELSE kret.kind = "raise" /\ kret.exc.type = "ValueError"
        IN
        /\ kwire.kind = "transport" =>
              kret.kind = "raise" /\ IsSubclass(kret.exc.type, "RequestException")
        /\ (kwire.kind = "response" /\ ~Is2xx /\ kcall.raise_for_status) =>
              kret.kind = "raise" /\ kret.exc.type = "HTTPError" /\ kret.status = kwire.status
        /\ (kwire.kind = "response" /\ ~Is2xx /\ ~kcall.raise_for_status) =>
              kret.exc.type # "HTTPError" /\ Decoded
        /\ (kwire.kind = "response" /\ Is2xx) => Decoded
        /\ kret.kind = "json" => kwire.kind = "response" /\ kwire.body.is_json

\* ------------------------------------------------------------------------
\* Properties of the renderer
\* ------------------------------------------------------------------------

\* an edge has its nested descriptor with catalog, schema and table name
Complete(e) ==
    e.has_tableInfo /\ e.catalog_name # "" /\ e.schema_name # "" /\ e.name # ""

\* catalog.schema.table of every complete edge of a list, in the list's order
CompleteNames(edges) ==
    LET kept == SelectSeq(edges, Complete) IN
    [i \in 1..Len(kept) |-> <<kept[i].catalog_name, kept[i].schema_name, kept[i].name>>]

\* the names a text lists under a heading; none when the heading is not there
Listed(lines, tag) ==
    IF \E i \in 1..Len(lines) : lines[i].tag = tag
    THEN lines[CHOOSE i \in 1..Len(lines) : lines[i].tag = tag].text
    ELSE <<>>

\* C17: for any lineage edge list, _format_lineage_info does not raise, leaves
\* out every upstream or downstream edge whose nested descriptor is missing
\* or lacks catalog, schema or table name, and renders every edge that has
\* all three as catalog.schema.table, in input order.
C17_IncompleteEdgesAreLeftOut ==
    lineage_section.done =>
        /\ lineage_section.exc = NoExc
        /\ Listed(lineage_section.lines, "**Upstream Tables:**") = CompleteNames(lineage.upstreams)
        /\ Listed(lineage_section.lines, "**Downstream Tables:**") = CompleteNames(lineage.downstreams)

\* an upstream list of an edge without schema and then a complete edge was
\* rendered as the complete edge alone
C17_Witness ==
    /\ lineage_section.done
    /\ lineage.upstreams = <<Edge(TRUE, "main", "", "t1"), Edge(TRUE, "main", "raw", "t2")>>
    /\ Listed(lineage_section.lines, "**Upstream Tables:**") = << <<"main", "raw", "t2">> >>

\* a format_table_info call was made
Rendered == rout.kind # "none"

\* the line of a text that has a tag
LineTagged(lines, tag) == lines[CHOOSE i \in 1..Len(lines) : lines[i].tag = tag]

HasTag(lines, tag) == \E i \in 1..Len(lines) : lines[i].tag = tag

\* the call passed no lineage_info, an empty one, or one entry per table
LineageArgumentFits ==
    rcall.omitted \/ rcall.lineage_info = <<>> \/ Len(rcall.lineage_info) = Len(rcall.tables)

\* C15: format_table_info in summary mode returns the 'no tables found'
\* marker on an empty table list, and on n >= 1 tables a header naming
\* catalog.schema, a count equal to n, and the n table names in input order,
\* each input entry once, comma-separated.
C15_SummaryListsEveryTableOnce ==
    (Rendered /\ ~rcall.extended /\ LineageArgumentFits) =>
        IF rcall.tables = <<>>
        THEN rout = RenderText(<<Txt("**No tables found**")>>)
        ELSE /\ rout.kind = "text"
             /\ HasTag(rout.lines, "# List of tables in")
             /\ LineTagged(rout.lines, "# List of tables in").text =
                    << <<rcall.tables[1].catalog_name, rcall.tables[1].schema_name>> >>
             /\ HasTag(rout.lines, "*Number of Tables*:")
             /\ LineTagged(rout.lines, "*Number of Tables*:").n = Len(rcall.tables)
             /\ HasTag(rout.lines, "names")
             /\ LineTagged(rout.lines, "names").text =
                    [i \in 1..Len(rcall.tables) |-> <<rcall.tables[i].name>>]

\* the parts of a text between its separator lines
RECURSIVE SplitSections(_)
SplitSections(lines) ==
    IF ~HasTag(lines, "---") THEN <<lines>>
    ELSE LET k == CHOOSE i \in 1..Len(lines) :
                    lines[i].tag = "---" /\ \A j \in 1..(i-1) : lines[j].tag # "---"
         IN <<SubSeq(lines, 1, k - 1)>> \o SplitSections(SubSeq(lines, k + 1, Len(lines)))

\* line a of a section is directly followed by line b
Followed(sec, a, b) == \E j \in 1..(Len(sec) - 1) : sec[j] = Txt(a) /\ sec[j+1] = Txt(b)

\* C16: a detailed document has, for every item with zero columns and zero
\* constraints, that item's section with its identity and with the schema
\* and constraints headers followed by the 'no columns' and 'no constraints'
\* markers.
C16_BareTableKeepsItsHeaders ==
    (Rendered /\ rcall.extended /\ rout.kind = "text" /\ rcall.tables # <<>>) =>
        LET secs == SplitSections(rout.lines) IN
        /\ Len(secs) = Len(rcall.tables)
        /\ \A i \in 1..Len(rcall.tables) :
             (rcall.tables[i].columns = <<>> /\ rcall.tables[i].table_constraints = <<>>) =>
                /\ HasTag(secs[i], "**Name:**")
                /\ LineTagged(secs[i], "**Name:**").text = <<FullName(rcall.tables[i])>>
                /\ Followed(secs[i], "### Schema", "No columns defined.")
                /\ Followed(secs[i], "### Constraints", "No constraints")

\* C19: a format_table_info call gives what the same arguments give on a
\* freshly loaded module (the same text or the same error), whatever
\* format_table_info calls ran before it, those that omitted lineage_info
\* among them.
C19_SameArgumentsSameOutput ==
    Rendered =>
        rout = format_table_info(rcall.tables, rcall.omitted, rcall.lineage_info,
                                 rcall.extended, <<>>).out

\* ------------------------------------------------------------------------
\* Properties of get_table_info
\* ------------------------------------------------------------------------

\* the table a section of a detailed document is about: the name it gives
\* under **Name:**, or in the message of its fallback
SectionIsAbout(sec, name) ==
    \/ /\ HasTag(sec, "**Name:**")
       /\ LineTagged(sec, "**Name:**").text = << <<"main", "sales", name>> >>
    \/ /\ HasTag(sec, "Error parsing table info")
       /\ LineTagged(sec, "Error parsing table info").text[1] = <<"main", "sales", name>>

\* C13: when the lineage fetch for one table of a batch fails, get_table_info
\* does not raise: it returns the document with a section for every name
\* requested, the failure shown in the section of the table it belongs to.
C13_LineageFailureStaysWithItsTable ==
    (gpc = "done" /\ gfail.step = "lineage") =>
        /\ gout.kind = "text"
        /\ LET secs == SplitSections(gout.lines) IN
           /\ Len(secs) = Len(table_names)
           /\ \A i \in 1..Len(table_names) : SectionIsAbout(secs[i], table_names[i])

\* C14: for n names whose fetches succeed, get_table_info returns n sections
\* in input order: the i-th is about the i-th name, and the lineage it shows
\* is the lineage fetched for that name.
C14_SectionsFollowTheNames ==
    (gpc = "done" /\ gfail = NoFetchFailure /\ table_names # <<>>) =>
        /\ gout.kind = "text"
        /\ LET secs == SplitSections(gout.lines) IN
           /\ Len(secs) = Len(table_names)
           /\ \A i \in 1..Len(table_names) :
                /\ SectionIsAbout(secs[i], table_names[i])
                /\ \A j \in 1..Len(secs[i]) :
                     \A k \in 1..Len(secs[i][j].dump) :
                        secs[i][j].dump[k] = fetched_lineage[i]
                /\ HasTag(secs[i], "**Upstream Tables:**") =>
                     LineTagged(secs[i], "**Upstream Tables:**").text =
                        CompleteNames(fetched_lineage[i].upstreams)

\* ------------------------------------------------------------------------
\* Properties of the list-schemas tool
\* ------------------------------------------------------------------------

\* C18: when the catalog fetch succeeds, fetch_schemas_in_catalog returns a
\* text document describing the catalog's schemas, never a null value.
C18_ListSchemasReturnsText ==
    (tool = "fetch_schemas_in_catalog" /\ tpc = "returned" /\ tresult.details = NoExc) =>
        tresult.kind = "text"

\* ------------------------------------------------------------------------
\* Properties of the credential store under concurrent readers
\* ------------------------------------------------------------------------

\* the threads with a token request in flight
InFlight == { t \in Threads : thread_pc[t] = "posting" }

\* C20: under concurrent reads of config.headers from several worker
\* threads, with the token expired or missing, at most one token request is
\* in flight at any time.
C20_OneTokenRequestInFlight == Cardinality(InFlight) <= 1

\* the cached token and the cached expiry were taken from different responses
Torn == stored_from.token # stored_from.expiry

\* C21: under any interleaving of concurrent reads of config.headers, no
\* reader tests or uses a cached pair whose access_token comes from one token
\* response and whose token_expires_at comes from another.
C21_NoReaderSeesATornPair ==
    [][ (\E t \in Threads : ThreadReads(t)) => ~Torn ]_vars

\* ------------------------------------------------------------------------
\* More properties of execute_query
\* ------------------------------------------------------------------------

\* C22: a pass of the loop over a response whose state is PENDING or RUNNING
\* never ends the call in a failure, whether or not the response carries an
\* error payload: a failure is only reported for a terminal state.
C22_NoFailureBeforeTerminalState ==
    [][ (qpc = "loop" /\ resp.has_status /\ resp.state \in NonTerminalStates /\ LoopIteration) =>
          /\ ~outcome'.has_error
          /\ outcome'.kind # "raise" ]_vars

\* ------------------------------------------------------------------------
\* Properties of the event loop
\* ------------------------------------------------------------------------

\* call c has started and has not returned
InProgress(c) == call_pc[c] \in {"blocking", "offloaded", "ready"}

\* C23: while a tool call is in progress (a run-query call that is submitting
\* or waiting on its statement included), the event loop is free, so that
\* another tool call can start and be resumed to its end.
C23_EventLoopIsNeverStalled ==
    \A c \in Calls : \A o \in Calls \ {c} :
        /\ (InProgress(c) /\ call_pc[o] = "new") => ENABLED CallStarts(o)
        /\ (InProgress(c) /\ call_pc[o] = "ready") => ENABLED CallResumes(o)

\* ------------------------------------------------------------------------
\* Termination of execute_query
\* ------------------------------------------------------------------------

\* C24: execute_query always terminates: also when the statement never
\* reaches a terminal state, the call ends (by then with a timeout error)
\* instead of running for ever.
C24_ExecuteQueryTerminates == <>(qpc \in {"done", "raised"})

\* ------------------------------------------------------------------------
\* More properties of format_table_info
\* ------------------------------------------------------------------------

\* line i of a section comes before line j
Before(sec, a, b) ==
    \E i \in 1..Len(sec) : \E j \in (i+1)..Len(sec) : sec[i].tag = a /\ sec[j].tag = b

\* C25: a detailed document over n items whose lineage list fits them has one
\* block per item in input order, whether or not rendering an item failed:
\* the block of a failed item is the diagnostic naming the table, followed by
\* the dump of the table's descriptor, and n-1 dividers separate the blocks,
\* none coming after the last.
C25_FailedItemsKeepTheirBlocks ==
    ( /\ Rendered /\ rcall.extended /\ rcall.tables # <<>>
      /\ rcall.bound = <<>> \/ Len(rcall.bound) = Len(rcall.tables) ) =>
        /\ rout.kind = "text"
        /\ LET secs == SplitSections(rout.lines)
               tables == rcall.tables
           IN
           /\ Len(secs) = Len(tables)
           /\ \A i \in 1..Len(tables) :
                IF HasTag(secs[i], "Error parsing table info")
                THEN /\ LineTagged(secs[i], "Error parsing table info").text[1] = FullName(tables[i])
                     /\ Before(secs[i], "Error parsing table info", "as_dict")
                     /\ LineTagged(secs[i], "as_dict").text = <<FullName(tables[i])>>
                ELSE /\ HasTag(secs[i], "**Name:**")
                     /\ LineTagged(secs[i], "**Name:**").text = <<FullName(tables[i])>>

\* a detailed document of two items was made, with a fallback block in it
C25_Witness ==
    /\ Rendered /\ rcall.extended /\ Len(rcall.tables) = 2
    /\ rout.kind = "text"
    /\ HasTag(SplitSections(rout.lines)[2], "Error parsing table info")

\* ------------------------------------------------------------------------
\* More properties of the API gateway
\* ------------------------------------------------------------------------

\* C26: with no host configured, a request or do call (every step of the
\* gateway is one) raises the configuration error before anything else: no
\* API request is sent, no token request is issued, and the cached token and
\* its expiry stay as they were.
C26_NoHostFailsBeforeAnythingElse ==
    [][ ~Truthy(cfg.host) =>
          /\ kret'.kind = "raise"
          /\ kret'.exc = Exc("ValueError", "DATABRICKS_HOST is not configured")
          /\ ~ksent'.reached
          /\ requests' = requests
          /\ access_token' = access_token
          /\ token_expires_at' = token_expires_at ]_vars

\* a call was made on a store without a host whose token a read of
\* config.headers would have refreshed
C26_Witness ==
    /\ kpc = "done" /\ ~Truthy(cfg.host)
    /\ ~Truthy(cfg.pat_token)
    /\ ~TokenValid(access_token, token_expires_at, now)
    /\ kret.kind = "raise"

\* ------------------------------------------------------------------------
\* More properties of the lineage section
\* ------------------------------------------------------------------------

\* the lineage dict names no table: it is missing or empty, its lists are
\* empty, or every edge of them is dropped
NamesNoTable(l) == CompleteNames(l.upstreams) = <<>> /\ CompleteNames(l.downstreams) = <<>>

\* C27: the section _format_single_table makes for an item whose lineage
\* names no table (missing, an empty mapping, empty upstream and downstream
\* lists, or only edges that get dropped) has the lineage header followed by
\* the 'no lineage' marker.
C27_NoLineageIsSaidSo ==
    (table_section.done /\ NamesNoTable(lineage)) =>
        /\ table_section.exc = NoExc
        /\ Followed(table_section.lines, "### Lineage", "No lineage information")

\* ------------------------------------------------------------------------
\* More properties of the credential store
\* ------------------------------------------------------------------------

\* the answers that make a token request fail: no answer, a non-2xx status,
\* a body without access_token
FailedAnswers ==
    { a \in TokenResponses :
        a.kind \in {"transport", "http_error"} \/ (a.kind = "ok" /\ ~Truthy(a.access_token)) }

\* C28: a resolve() whose token request fails (in transport, with a non-2xx
\* status, or with a body without access_token) raises, and it leaves
\* access_token and token_expires_at as they were before the call, so that
\* the token is still not valid and the next resolve() asks again.
C28_FailedRefreshLeavesCacheAlone ==
    /\ []( (ClientCredentials /\ ~TokenValid(access_token, token_expires_at, now)) =>
             \A answer \in FailedAnswers :
                LET r == headers(cfg, access_token, token_expires_at, now, answer, 0) IN
                r.ret.exc # NoExc /\ r.cache.posts = 1 )
    /\ [][ (ClientCredentials /\ requests' = requests + 1 /\ ret'.exc # NoExc) =>
             /\ access_token' = access_token
             /\ token_expires_at' = token_expires_at
             /\ ~TokenValid(access_token', token_expires_at', now') ]_vars

\* a resolve() on an expired token has failed in its token request
C28_Witness ==
    /\ ClientCredentials
    /\ ret.op = "headers" /\ ret.exc # NoExc /\ ret.posts = 1
    /\ access_token = "t1" /\ TruthyNum(token_expires_at)

====
